---- MODULE Spec2Model ----
(***************************************************************************)
(* Model of the issue clustering and categorization of the 311 scrapers    *)
(* in src/worker: BostonEventScraper (boston_event_scraper.py),            *)
(* FinalBostonScraper (final_boston_scraper.py), EnhancedEventScraper      *)
(* (enhanced_event_scraper.py) and Open311Scraper (event_scraping.py).     *)
(*                                                                         *)
(* Text is modelled as TLA+ strings, matched character by character.       *)
(* Coordinates are integers in millidegrees; angles and distances are      *)
(* fixed-point numbers with Scale units per radian / per kilometre.        *)
(* List positions are 1-based here (Python's index k is position k+1).     *)
(***************************************************************************)
EXTENDS Integers, Sequences, FiniteSets, TLC

VARIABLES
    scraper,          \* which scraper class `self` is
    issues,           \* argument `issues` of the call in progress
    max_distance_km,  \* argument `max_distance_km`, in 1/Scale km
    pc,               \* position in the code
    i,                \* outer loop index of cluster_nearby_issues
    j,                \* inner loop index of cluster_nearby_issues
    cluster,          \* local `cluster`: positions (references) of its members
    used_indices,     \* local `used_indices`
    clusters,         \* local `clusters`, the value returned
    issue_category,   \* local `issue_category` / the categorizer's return value
    run,              \* number of the call on this scraper instance
    first_clusters,   \* what the first call returned
    rows,             \* the source rows handed to a parser
    row_index,        \* position of the parser's loop in rows
    city,             \* name of the city being scraped
    use_fallback,     \* Open311Scraper.use_fallback
    session,          \* self.session
    created_events_count,    \* self.created_events_count
    processed_issues_count,  \* self.processed_issues_count
    created_events,   \* local `created_events` of the run loop
    results,          \* local `results` of scrape_all_cities
    raised,           \* the exception leaving scrape_city, or None
    markers,          \* rows inserted into the table "markers"
    events,           \* rows inserted into the table "events"
    marker_calls,     \* clusters for which create_marker was called, in order
    event_calls,      \* clusters for which create_event was called, in order
    create_calls,     \* clusters for which the create-event function was called
    slept,            \* milliseconds slept since the last create-event call
    gap,              \* milliseconds slept between the last two create-event calls
    sleeps,           \* number of sleeps of the run loop
    cluster_index,    \* position of the run loop in clusters
    now,              \* datetime.now() in the create-event function
    event_start,      \* local `event_start` of the create-event function
    event_end,        \* local `event_end` of the create-event function
    claude_api_key,   \* self.claude_api_key
    content_category, \* argument `category` of the content generators
    api_calls,        \* what the Claude API answered to each call, in order
    content,          \* what the content generator returned, or that it raised
    city_index,       \* position of the loop of scrape_all_cities in CITIES
    scraped           \* the calls of scrape_city so far: city name, and whether it raised

\* the state of cluster_nearby_issues and of the categorizers
core_vars == <<scraper, issues, max_distance_km, pc, i, j, cluster, used_indices,
               clusters, issue_category, run, first_clusters>>

\* the state of the parsers
parse_vars == <<rows, row_index>>

\* the state of the scraper instance and of its run loop
run_vars == <<city, use_fallback, session, created_events_count,
              processed_issues_count, created_events, results, raised, markers,
              events, marker_calls, event_calls, create_calls, slept, gap, sleeps,
              cluster_index>>

\* the arguments and locals of cluster_nearby_issues other than issues, clusters
cluster_locals == <<max_distance_km, i, j, cluster, used_indices, issue_category,
                    run, first_clusters>>

\* the state of the create-event function by itself
aux_vars == <<now, event_start, event_end, claude_api_key, content_category, api_calls,
              content>>

\* the loop of scrape_all_cities
cities_vars == <<city_index, scraped>>

ext_vars == <<parse_vars, run_vars, aux_vars, cities_vars>>

vars == <<core_vars, ext_vars>>

(***************************************************************************)
(* Bounds of the model.                                                    *)
(***************************************************************************)
MaxIssues == 4

(***************************************************************************)
(* models.EventCategory and Python's None.                                 *)
(***************************************************************************)
EventCategory == {"cleanup", "advocacy", "education", "other"}
None == "None"

(***************************************************************************)
(* Python str operations: lower(), `needle in hay`, f-string joins.        *)
(***************************************************************************)
\* str.lower() on one character
LowerOf ==
    ("A" :> "a") @@ ("B" :> "b") @@ ("C" :> "c") @@ ("D" :> "d") @@ ("E" :> "e") @@
    ("F" :> "f") @@ ("G" :> "g") @@ ("H" :> "h") @@ ("I" :> "i") @@ ("J" :> "j") @@
    ("K" :> "k") @@ ("L" :> "l") @@ ("M" :> "m") @@ ("N" :> "n") @@ ("O" :> "o") @@
    ("P" :> "p") @@ ("Q" :> "q") @@ ("R" :> "r") @@ ("S" :> "s") @@ ("T" :> "t") @@
    ("U" :> "u") @@ ("V" :> "v") @@ ("W" :> "w") @@ ("X" :> "x") @@ ("Y" :> "y") @@
    ("Z" :> "z")

LowerChar(c) == IF c \in DOMAIN LowerOf THEN LowerOf[c] ELSE c

RECURSIVE Lower(_)
Lower(s) ==
    IF Len(s) = 0 THEN ""
    ELSE LowerChar(SubSeq(s, 1, 1)) \o Lower(SubSeq(s, 2, Len(s)))

\* [e.lower() for e in entries]
RECURSIVE LowerAll(_)
LowerAll(entries) ==
    IF entries = <<>> THEN <<>>
    ELSE <<Lower(Head(entries))>> \o LowerAll(Tail(entries))

\* Python's `needle in hay` on strings
In(needle, hay) ==
    \E k \in 1..(Len(hay) - Len(needle) + 1) :
        SubSeq(hay, k, k + Len(needle) - 1) = needle

\* one of the for-loops over a list of the table: does any entry occur in text
AnyIn(entries, text) ==
    \E k \in 1..Len(entries) : In(entries[k], text)

\* `value in list` on a list of strings
Member(value, entries) ==
    \E k \in 1..Len(entries) : entries[k] = value

(***************************************************************************)
(* The category tables.  A Python dict iterates in insertion order, which  *)
(* CategoryOrder records.                                                  *)
(***************************************************************************)
CategoryOrder == <<"cleanup", "advocacy", "education">>

BostonCategories ==
    [cleanup |->
        [subjects |-> <<"Graffiti", "Illegal Dumping", "Litter", "Trash", "Garbage",
                        "Abandoned Bicycle", "Abandoned Vehicle", "Street Cleaning",
                        "Sidewalk Cleaning", "Park Maintenance", "Dead Animal",
                        "Bulk Item Pickup", "Mattress", "Furniture", "Construction Debris",
                        "Overflowing Litter Baskets", "Dirty Conditions", "Sanitation">>,
         reasons |-> <<"Illegal Dumping", "Litter Basket / Request", "Graffiti Removal",
                       "Street/Sidewalk", "Sanitation Condition", "Overflowing Basket",
                       "Bulk Item", "Dead Animal Removal", "Park Cleaning">>,
         departments |-> <<"PWD", "Parks & Recreation Department", "Public Works">>],
     advocacy |->
        [subjects |-> <<"Air Pollution Complaint", "Noise Disturbance", "Water Quality",
                        "Environmental Services", "Hazardous Material", "Chemical Spill",
                        "Industrial Waste", "Sewage", "Storm Drain", "Odor Complaint",
                        "Toxic Material", "Environmental Violation">>,
         reasons |-> <<"Air Quality", "Noise", "Water Quality", "Environmental",
                       "Hazmat", "Chemical", "Industrial", "Pollution", "Toxic",
                       "Sewage Backup", "Illegal Discharge">>,
         departments |-> <<"Environment Department", "ISD", "BWSC">>],
     education |->
        [subjects |-> <<"Recycling", "Composting", "Green Program", "Sustainability",
                        "Energy Conservation", "Environmental Education", "Outreach">>,
         reasons |-> <<"Recycling Request", "Composting Program", "Green Initiative",
                       "Energy Program", "Environmental Awareness">>,
         departments |-> <<"Environment Department", "Mayor's Office">>]]

FinalCategories ==
    [cleanup |->
        [case_titles |-> <<"Improper Storage of Trash (Barrels)", "CE Collection",
                           "Graffiti Removal", "Requests for Street Cleaning",
                           "Empty Litter Basket", "Pick up Dead Animal",
                           "Abandoned Vehicles", "Bulk Item Collection", "Illegal Dumping",
                           "Overflowing Litter Baskets", "Dirty Conditions">>,
         subjects |-> <<"Public Works Department", "Street Cleaning", "Graffiti",
                        "Highway Maintenance", "Code Enforcement">>,
         keywords |-> <<"trash", "garbage", "litter", "graffiti", "cleaning", "dumping",
                        "abandoned", "dead animal", "debris", "collection", "removal">>],
     advocacy |->
        [case_titles |-> <<"Air Pollution Control", "Noise Disturbance", "Water Quality",
                           "Industrial Waste", "Environmental Hazard", "Toxic Material",
                           "Sewage/Septic", "Odor", "Chemical Spill">>,
         subjects |-> <<"Environmental Services", "Air Quality", "Water Quality",
                        "Hazardous Materials", "Industrial Compliance">>,
         keywords |-> <<"pollution", "noise", "air quality", "water", "toxic", "hazard",
                        "chemical", "industrial", "sewage", "odor", "contamination">>],
     education |->
        [case_titles |-> <<"Recycling", "Composting Program", "Environmental Education",
                           "Green Initiative", "Sustainability Program">>,
         subjects |-> <<"Recycling", "Environmental Education", "Sustainability",
                        "Green Programs", "Conservation">>,
         keywords |-> <<"recycling", "composting", "education", "green", "sustainability",
                        "conservation", "program", "initiative", "awareness">>]]

EnhancedMappings ==
    [cleanup |->
        [keywords |-> <<"illegal dumping", "litter", "trash", "garbage", "debris", "waste",
                        "graffiti", "abandoned vehicle", "bulk item", "mattress", "furniture",
                        "construction debris", "yard waste", "electronic waste",
                        "hazardous waste", "street cleaning", "sidewalk cleaning",
                        "park maintenance", "beach cleanup">>,
         complaint_types |-> <<"Illegal Dumping", "Street/Sidewalk", "Sanitation Condition",
                               "Graffiti", "Abandoned Vehicle", "Bulk Item", "Dead Animal",
                               "Overflowing Litter Baskets", "Dirty Conditions",
                               "Sweeping/Cleaning", "Litter Basket / Request">>,
         category |-> "cleanup"],
     advocacy |->
        [keywords |-> <<"air quality", "noise", "pollution", "environmental", "toxic",
                        "contamination", "industrial", "emissions", "odor", "chemical",
                        "hazmat", "spill", "leak", "water quality", "sewage", "storm drain",
                        "illegal discharge">>,
         complaint_types |-> <<"Air Quality", "Noise", "Water Quality", "Industrial Waste",
                               "Hazmat", "Environmental", "Toxic Material", "Chemical Spill",
                               "Sewage", "Illegal Discharge", "Odor/Gas",
                               "Indoor Air Quality">>,
         category |-> "advocacy"],
     education |->
        [keywords |-> <<"recycling", "composting", "sustainability", "green", "energy",
                        "conservation", "education", "outreach", "awareness", "program">>,
         complaint_types |-> <<"Recycling", "Composting", "Energy", "Green Program",
                               "Sustainability", "Environmental Education", "Conservation">>,
         category |-> "education"]]

\* the tables with `.lower()` applied where the categorizers apply it
BostonLowered ==
    [c \in {"cleanup", "advocacy", "education"} |->
        [subjects |-> LowerAll(BostonCategories[c].subjects),
         reasons |-> LowerAll(BostonCategories[c].reasons),
         departments |-> LowerAll(BostonCategories[c].departments)]]

FinalLowered ==
    [c \in {"cleanup", "advocacy", "education"} |->
        [case_titles |-> LowerAll(FinalCategories[c].case_titles),
         subjects |-> LowerAll(FinalCategories[c].subjects),
         keywords |-> FinalCategories[c].keywords]]

(***************************************************************************)
(* BostonEventScraper.categorize_boston_issue                              *)
(***************************************************************************)
\* `return EventCategory.cleanup` after the loop
BostonDefaultOther == "other"
BostonDefault == "cleanup"

\* the three checks made for one category, in the order the code makes them
BostonChecks(category, subject, reason, department) ==
    LET data == BostonLowered[category]
    IN  <<AnyIn(data.subjects, subject),
          AnyIn(data.reasons, reason),
          AnyIn(data.departments, department)>>

\* `for category, data in self.ENVIRONMENTAL_CATEGORIES.items()` from position k
RECURSIVE BostonScan(_, _, _, _)
BostonScan(k, subject, reason, department) ==
    IF k > Len(CategoryOrder) THEN BostonDefault
    ELSE LET category == CategoryOrder[k]
             checks == BostonChecks(category, subject, reason, department)
         IN  IF checks[1] THEN category
             ELSE IF checks[2] THEN category
             ELSE IF checks[3] THEN category
             ELSE BostonScan(k + 1, subject, reason, department)

\* a scan that tries each kind of check over all categories before the next kind
categorize_boston_issue_check_major(issue) ==
    LET subject == Lower(issue.subject)
        reason == Lower(issue.reason)
        department == Lower(issue.department)
        hit(n) == {k \in 1..Len(CategoryOrder) :
                      BostonChecks(CategoryOrder[k], subject, reason, department)[n]}
        first(S) == CategoryOrder[CHOOSE k \in S : \A m \in S : k <= m]
    IN  IF hit(1) # {} THEN first(hit(1))
        ELSE IF hit(2) # {} THEN first(hit(2))
        ELSE IF hit(3) # {} THEN first(hit(3))
        ELSE BostonDefault

categorize_boston_issue(issue) ==
    BostonScan(1, Lower(issue.subject), Lower(issue.reason), Lower(issue.department))

(***************************************************************************)
(* FinalBostonScraper.categorize_issue                                     *)
(***************************************************************************)
FinalDefault == "cleanup"

FinalChecks(category, case_title, subject, reason) ==
    LET data == FinalLowered[category]
        text_to_check == case_title \o " " \o subject \o " " \o reason
    IN  <<AnyIn(data.case_titles, case_title),
          AnyIn(data.subjects, subject),
          AnyIn(data.keywords, text_to_check)>>

RECURSIVE FinalScan(_, _, _, _)
FinalScan(k, case_title, subject, reason) ==
    IF k > Len(CategoryOrder) THEN FinalDefault
    ELSE LET category == CategoryOrder[k]
             checks == FinalChecks(category, case_title, subject, reason)
         IN  IF checks[1] THEN category
             ELSE IF checks[2] THEN category
             ELSE IF checks[3] THEN category
             ELSE FinalScan(k + 1, case_title, subject, reason)

\* the scan on the fields as they stand, without `.lower()`
final_categorize_issue_no_lower(issue) ==
    FinalScan(1, issue.case_title, issue.subject, issue.reason)

final_categorize_issue(issue) ==
    FinalScan(1, Lower(issue.case_title), Lower(issue.subject), Lower(issue.reason))

(***************************************************************************)
(* EnhancedEventScraper.categorize_issue                                   *)
(***************************************************************************)
RECURSIVE EnhancedScan(_, _, _)
EnhancedScan(k, complaint_type, text_to_check) ==
    IF k > Len(CategoryOrder) THEN None
    ELSE LET mapping == EnhancedMappings[CategoryOrder[k]]
         IN  IF Member(complaint_type, mapping.complaint_types) THEN mapping.category
             ELSE IF AnyIn(mapping.keywords, text_to_check) THEN mapping.category
             ELSE EnhancedScan(k + 1, complaint_type, text_to_check)

enhanced_categorize_issue(issue) ==
    EnhancedScan(1, issue.complaint_type,
                 Lower(issue.complaint_type \o " " \o issue.descriptor))

(***************************************************************************)
(* _haversine_distance, the same in the four scrapers.  Floats become      *)
(* fixed-point integers: Scale units per radian and per kilometre, so one  *)
(* unit of angle is 0.0001 rad.  sin, cos and asin are their Maclaurin     *)
(* series; sin and asin are odd and cos is even, as in the math library.   *)
(***************************************************************************)
Scale == 10000
EarthRadius == 6371

Abs(x) == IF x < 0 THEN -x ELSE x

\* x * n / d rounded toward zero, so that the result is odd in x
MulDiv(x, n, d) == IF x < 0 THEN -(((-x) * n) \div d) ELSE (x * n) \div d

\* math.radians of a coordinate in millidegrees: pi/180000 rad = 0.1745 units
Radians(x) == MulDiv(x, 1745, 10000)

Sin(x) ==
    LET y  == Abs(x)
        y2 == (y * y) \div Scale
        y3 == (y2 * y) \div Scale
        y5 == (y3 * y2) \div Scale
        v  == y - (y3 \div 6) + (y5 \div 120)
    IN  IF x < 0 THEN -v ELSE v

Cos(x) ==
    LET y  == Abs(x)
        y2 == (y * y) \div Scale
        y4 == (y2 * y2) \div Scale
        y6 == (y4 * y2) \div Scale
        y8 == (y4 * y4) \div Scale
    IN  Scale - (y2 \div 2) + (y4 \div 24) - (y6 \div 720) + (y8 \div 40320)

Asin(x) ==
    LET y  == Abs(x)
        y2 == (y * y) \div Scale
        y3 == (y2 * y) \div Scale
        y5 == (y3 * y2) \div Scale
        y7 == (y5 * y2) \div Scale
        v  == y + (y3 \div 6) + ((3 * y5) \div 40) + ((15 * y7) \div 336)
    IN  IF x < 0 THEN -v ELSE v

\* math.sqrt of n / Scale^2, in units of 1 / Scale: the integer square root of n
RECURSIVE SqrtBetween(_, _, _)
SqrtBetween(n, lo, hi) ==
    IF lo >= hi THEN lo
    ELSE LET mid == (lo + hi + 1) \div 2
         IN  IF mid * mid <= n THEN SqrtBetween(n, mid, hi)
             ELSE SqrtBetween(n, lo, mid - 1)

Sqrt(n) == SqrtBetween(n, 0, Scale)

\* the distance in 1/Scale km between two points given in millidegrees
haversine_distance(lat1, lng1, lat2, lng2) ==
    LET rlat1 == Radians(lat1)
        rlng1 == Radians(lng1)
        rlat2 == Radians(lat2)
        rlng2 == Radians(lng2)
        dlat == rlat2 - rlat1
        dlng == rlng2 - rlng1
        sin_dlat == Sin(MulDiv(dlat, 1, 2))
        sin_dlng == Abs(Sin(MulDiv(dlng, 1, 2)))
        cos_cos == (Cos(rlat1) * Cos(rlat2)) \div Scale
        a == sin_dlat * sin_dlat + ((cos_cos * sin_dlng) \div Scale) * sin_dlng
        c == 2 * Asin(Sqrt(a))
    IN  c * EarthRadius

(***************************************************************************)
(* Inputs.  Four points around Boston, in millidegrees: P0, P1, P2 lie on  *)
(* one meridian about 5 km apart, P3 is about 5 km east of P2.             *)
(***************************************************************************)
P0 == [lat |-> 42360, lng |-> -71060]
P1 == [lat |-> 42410, lng |-> -71060]
P2 == [lat |-> 42460, lng |-> -71060]
P3 == [lat |-> 42460, lng |-> -71000]
\* 0.16 km west of P0: within every default threshold
P4 == [lat |-> 42360, lng |-> -71062]

\* a BostonIssue (both Boston scrapers), with the fields the model reads
BostonIssue(case_title, subject, reason, department, p) ==
    [case_title |-> case_title, subject |-> subject, reason |-> reason,
     department |-> department, latitude |-> p.lat, longitude |-> p.lng]

Graffiti(p) == BostonIssue("Graffiti Removal", "Graffiti Removal", "Graffiti", "PWD", p)
Dumping(p) == BostonIssue("Illegal Dumping", "Illegal Dumping", "Illegal Dumping", "PWD", p)
Noise(p) == BostonIssue("Noise Disturbance", "Noise Disturbance", "Noise Complaint", "ISD", p)

BostonPool == {Graffiti(P0), Dumping(P1), Graffiti(P2), Noise(P0), Noise(P1)}

\* an EnvironmentalIssue of the Socrata scraper
EnvironmentalIssue(complaint_type, descriptor, p) ==
    [complaint_type |-> complaint_type, descriptor |-> descriptor,
     lat |-> p.lat, lng |-> p.lng]

EnhancedPool ==
    {EnvironmentalIssue("Street Condition", "Trash on road", P0),
     EnvironmentalIssue("Street Condition", "Noise from road works", P1),
     EnvironmentalIssue("Noise", "", P2),
     EnvironmentalIssue("Pothole", "", P1)}

\* an Open311Issue
Open311Issue(service_name, service_code, description, p) ==
    [service_name |-> service_name, service_code |-> service_code,
     description |-> description, lat |-> p.lat, lng |-> p.lng]

Open311Pool ==
    {Open311Issue("Illegal Dumping", "001", "trash", P0),
     Open311Issue("Graffiti", "", "", P1),
     Open311Issue("Litter", "", "", P2),
     Open311Issue("Recycling", "", "", P3)}

\* what a fetch may return to a run loop: records at P0 and P4
BostonRunPool == {Graffiti(P0), Dumping(P4), Noise(P0)}

EnhancedRunPool ==
    {EnvironmentalIssue("Street Condition", "Trash on road", P0),
     EnvironmentalIssue("Pothole", "", P4),
     EnvironmentalIssue("Noise", "", P0),
     EnvironmentalIssue("Pothole", "Trash in pothole", P0)}

Open311RunPool ==
    {Open311Issue("Illegal Dumping", "001", "trash", P0),
     Open311Issue("Graffiti", "", "", P4),
     Open311Issue("Street Light", "", "lamp broken", P0)}

Scrapers == {"boston", "final", "enhanced", "open311"}
BostonVariants == {"boston", "final"}

Pool(s) ==
    CASE s \in BostonVariants -> BostonPool
      [] s = "enhanced" -> EnhancedPool
      [] s = "open311" -> Open311Pool

RunPool(s) ==
    CASE s \in BostonVariants -> BostonRunPool
      [] s = "enhanced" -> EnhancedRunPool
      [] s = "open311" -> Open311RunPool

\* records for the categorizers alone: every combination of these field values
CategorizePool ==
    {BostonIssue(t, s, r, d, P0) :
        t \in {"", "Noise Disturbance", "Graffiti Removal", "RECYCLING"},
        s \in {"", "Noise Disturbance", "Public Works Department", "Recycling"},
        r \in {"", "Noise Complaint", "Graffiti Removal", "Street Light Outages"},
        d \in {"", "PWD", "ISD", "BTDT"}}

\* the default of max_distance_km in each scraper, in 1/Scale km
DefaultMaxDistance ==
    [boston |-> 2000, final |-> 5000, enhanced |-> 3000, open311 |-> 5000]

\* the thresholds tried: the default, and exactly the distance from P0 to P1
Thresholds(s) ==
    {DefaultMaxDistance[s], haversine_distance(P0.lat, P0.lng, P1.lat, P1.lng)}

\* all lists of at most n records of S
ListsUpTo(S, n) == UNION {[1..m -> S] : m \in 0..n}

(***************************************************************************)
(* What cluster_nearby_issues reads of a record.                           *)
(***************************************************************************)
Latitude(s, issue) == IF s \in BostonVariants THEN issue.latitude ELSE issue.lat
Longitude(s, issue) == IF s \in BostonVariants THEN issue.longitude ELSE issue.lng

\* _haversine_distance between the points of the pools, evaluated once
Points == {P0, P1, P2, P3, P4}
DistanceTable ==
    [p \in Points, q \in Points |-> haversine_distance(p.lat, p.lng, q.lat, q.lng)]

\* self._haversine_distance(issue..., other_issue...) on pool records
Distance(s, issue, other_issue) ==
    DistanceTable[[lat |-> Latitude(s, issue), lng |-> Longitude(s, issue)],
                  [lat |-> Latitude(s, other_issue), lng |-> Longitude(s, other_issue)]]

\* the categorizer of each scraper (Open311Scraper has none)
CategorizeWith(s, issue) ==
    CASE s = "boston" -> categorize_boston_issue(issue)
      [] s = "final" -> final_categorize_issue(issue)
      [] s = "enhanced" -> enhanced_categorize_issue(issue)
      [] s = "open311" -> None

\* the categorizers applied to every record of the pools, evaluated once
CategoryTable ==
    UNION {{<<s, r, CategorizeWith(s, r)>> : r \in Pool(s) \cup RunPool(s)} :
              s \in Scrapers}

\* self.categorize_boston_issue(issue) / self.categorize_issue(issue) on a pool record
Categorize(s, issue) ==
    (CHOOSE t \in CategoryTable : t[1] = s /\ t[2] = issue)[3]

\* EnhancedEventScraper: `similar_type`; the alternative takes every pair as similar
similar_type_always(issue, other_issue) == TRUE
similar_type(issue, other_issue) ==
    \/ issue.complaint_type = other_issue.complaint_type
    \/ Categorize("enhanced", issue) = Categorize("enhanced", other_issue)

\* `distance <= max_distance_km`; the alternatives use `<`, or skip the test
WithinDistanceStrict(distance, limit) == distance < limit
WithinDistanceAlways(distance, limit) == TRUE
WithinDistance(distance, limit) == distance <= limit

\* chained clustering: near any record already in the cluster
NearbyChained(s, issue, other_issue, limit) ==
    /\ \E m \in 1..Len(cluster) :
           WithinDistance(Distance(s, issues[cluster[m]], other_issue), limit)
    /\ (s = "enhanced" => similar_type(issue, other_issue))

\* the test that lets other_issue join the seed's cluster, after the category
\* test of the Boston scrapers
Nearby(s, issue, other_issue, limit) ==
    /\ WithinDistance(Distance(s, issue, other_issue), limit)
    /\ (s = "enhanced" => similar_type(issue, other_issue))

(***************************************************************************)
(* cluster_nearby_issues, one step of its loops at a time.                 *)
(***************************************************************************)
\* `used_indices = set()`; the alternative keeps the set of the previous call
StaleUsedIndices == used_indices
NewUsedIndices == {}

\* `used_indices.add(k)`; the alternatives forget to, or keep k alone
MarkUsedNot(used, k) == used
MarkUsedOnly(used, k) == {k}
MarkUsed(used, k) == used \cup {k}

\* `clusters.append(cluster)`; the alternatives put the cluster in front, or keep
\* only a cluster of several records
PrependCluster(cs, c) == <<c>> \o cs
AppendClusterOfSeveral(cs, c) == IF Len(c) > 1 THEN Append(cs, c) ELSE cs
AppendCluster(cs, c) == Append(cs, c)

(***************************************************************************)
(* cluster_nearby_issues as the value it returns, for its callers.         *)
(***************************************************************************)
\* the inner loop from position n on: <<cluster, used_indices>> at its end
RECURSIVE InnerLoop(_, _, _, _, _, _, _)
InnerLoop(s, list, limit, seed, n, members, used) ==
    IF n > Len(list) THEN <<members, used>>
    ELSE IF n \in used \/ seed = n
         THEN InnerLoop(s, list, limit, seed, n + 1, members, used)
    ELSE IF s \in BostonVariants /\ Categorize(s, list[seed]) # Categorize(s, list[n])
         THEN InnerLoop(s, list, limit, seed, n + 1, members, used)
    ELSE IF /\ WithinDistance(Distance(s, list[seed], list[n]), limit)
            /\ (s = "enhanced" => similar_type(list[seed], list[n]))
         THEN InnerLoop(s, list, limit, seed, n + 1, Append(members, n), MarkUsed(used, n))
    ELSE InnerLoop(s, list, limit, seed, n + 1, members, used)

\* the outer loop from position n on: `clusters` at its end
RECURSIVE OuterLoop(_, _, _, _, _, _)
OuterLoop(s, list, limit, n, used, cs) ==
    IF n > Len(list) THEN cs
    ELSE IF n \in used THEN OuterLoop(s, list, limit, n + 1, used, cs)
    ELSE LET inner == InnerLoop(s, list, limit, n, 1, <<n>>, MarkUsed(used, n))
         IN  OuterLoop(s, list, limit, n + 1, inner[2], AppendCluster(cs, inner[1]))

cluster_nearby_issues(s, list, limit) ==
    IF list = <<>> THEN <<>> ELSE OuterLoop(s, list, limit, 1, {}, <<>>)

\* no parser at work
ParseIdle ==
    /\ rows = <<>>
    /\ row_index = 0

\* a scraper as __init__ leaves it, with a session open, outside any run
RunFresh ==
    /\ session = "open"
    /\ created_events_count = 0
    /\ processed_issues_count = 0
    /\ created_events = <<>>
    /\ results = <<>>
    /\ raised = None
    /\ markers = <<>>
    /\ events = <<>>
    /\ marker_calls = <<>>
    /\ event_calls = <<>>
    /\ create_calls = <<>>
    /\ slept = 0
    /\ gap = <<>>
    /\ sleeps = 0
    /\ cluster_index = 0

\* no run loop at work
RunIdle ==
    /\ city = None
    /\ use_fallback = TRUE
    /\ RunFresh

\* outside the create-event function: no clock read, nothing scheduled
AuxIdle ==
    /\ now = <<>>
    /\ event_start = <<>>
    /\ event_end = <<>>
    /\ claude_api_key = <<>>
    /\ content_category = None
    /\ api_calls = <<>>
    /\ content = <<>>

\* outside scrape_all_cities
CitiesIdle ==
    /\ city_index = 0
    /\ scraped = <<>>

ExtIdle == ParseIdle /\ RunIdle /\ AuxIdle /\ CitiesIdle

\* the arguments and locals of cluster_nearby_issues outside a call of it
ClusterIdle ==
    /\ max_distance_km = DefaultMaxDistance[scraper]
    /\ i = 0
    /\ j = 0
    /\ cluster = <<>>
    /\ used_indices = {}
    /\ clusters = <<>>
    /\ issue_category = None
    /\ run = 1
    /\ first_clusters = <<>>

Init ==
    /\ ExtIdle
    /\ scraper \in Scrapers
    /\ issues \in ListsUpTo(Pool(scraper), MaxIssues)
    /\ max_distance_km \in Thresholds(scraper)
    /\ pc = "call"
    /\ i = 0
    /\ j = 0
    /\ cluster = <<>>
    /\ used_indices = {}
    /\ clusters = <<>>
    /\ issue_category = None
    /\ run = 1
    /\ first_clusters = <<>>

\* `if not issues: return []`
ReturnEmpty ==
    /\ pc = "call"
    /\ Len(issues) = 0
    /\ clusters' = <<>>
    /\ pc' = "done"
    /\ UNCHANGED <<scraper, issues, max_distance_km, i, j, cluster, used_indices,
                   issue_category, run, first_clusters>>
    /\ UNCHANGED ext_vars

\* `clusters = []; used_indices = set()` and the start of the outer loop
Enter ==
    /\ pc = "call"
    /\ Len(issues) > 0
    /\ clusters' = <<>>
    /\ used_indices' = NewUsedIndices
    /\ i' = 1
    /\ pc' = "outer"
    /\ UNCHANGED <<scraper, issues, max_distance_km, j, cluster, issue_category,
                   run, first_clusters>>
    /\ UNCHANGED ext_vars

\* `if i in used_indices: continue`
SkipUsed ==
    /\ pc = "outer"
    /\ i <= Len(issues)
    /\ i \in used_indices
    /\ i' = i + 1
    /\ UNCHANGED <<scraper, issues, max_distance_km, pc, j, cluster, used_indices,
                   clusters, issue_category, run, first_clusters>>
    /\ UNCHANGED ext_vars

\* `cluster = [issue]; used_indices.add(i)`, the seed's category (Boston
\* scrapers), and the start of the inner loop
StartCluster ==
    /\ pc = "outer"
    /\ i <= Len(issues)
    /\ i \notin used_indices
    /\ cluster' = <<i>>
    /\ used_indices' = MarkUsed(used_indices, i)
    /\ issue_category' = IF scraper \in BostonVariants
                         THEN Categorize(scraper, issues[i])
                         ELSE issue_category
    /\ j' = 1
    /\ pc' = "inner"
    /\ UNCHANGED <<scraper, issues, max_distance_km, i, clusters, run, first_clusters>>
    /\ UNCHANGED ext_vars

\* `if j in used_indices or i == j: continue`
SkipOther ==
    /\ pc = "inner"
    /\ j <= Len(issues)
    /\ (j \in used_indices \/ i = j)
    /\ j' = j + 1
    /\ UNCHANGED <<scraper, issues, max_distance_km, pc, i, cluster, used_indices,
                   clusters, issue_category, run, first_clusters>>
    /\ UNCHANGED ext_vars

\* the other record passes the `continue` tests of the inner loop so far
Candidate ==
    /\ pc = "inner"
    /\ j <= Len(issues)
    /\ ~(j \in used_indices \/ i = j)

\* Boston scrapers: `issue_category != other_category`; the alternative never
\* sees a difference
CategoryDiffersNever == FALSE
CategoryDiffers ==
    /\ scraper \in BostonVariants
    /\ issue_category # Categorize(scraper, issues[j])

\* Boston scrapers: `if issue_category != other_category: continue`
OtherCategory ==
    /\ Candidate
    /\ CategoryDiffers
    /\ j' = j + 1
    /\ UNCHANGED <<scraper, issues, max_distance_km, pc, i, cluster, used_indices,
                   clusters, issue_category, run, first_clusters>>
    /\ UNCHANGED ext_vars

\* the distance test fails: nothing is added
NotNearby ==
    /\ Candidate
    /\ ~CategoryDiffers
    /\ ~Nearby(scraper, issues[i], issues[j], max_distance_km)
    /\ j' = j + 1
    /\ UNCHANGED <<scraper, issues, max_distance_km, pc, i, cluster, used_indices,
                   clusters, issue_category, run, first_clusters>>
    /\ UNCHANGED ext_vars

\* a step that moves the record out of the input list into the cluster
AppendOtherTaking ==
    /\ Candidate
    /\ ~CategoryDiffers
    /\ Nearby(scraper, issues[i], issues[j], max_distance_km)
    /\ cluster' = Append(cluster, j)
    /\ issues' = SubSeq(issues, 1, j - 1) \o SubSeq(issues, j + 1, Len(issues))
    /\ used_indices' = MarkUsed(used_indices, j)
    /\ j' = j + 1
    /\ UNCHANGED <<scraper, max_distance_km, pc, i, clusters, issue_category,
                   run, first_clusters>>
    /\ UNCHANGED ext_vars

\* `cluster.append(other_issue); used_indices.add(j)`
AppendOther ==
    /\ Candidate
    /\ ~CategoryDiffers
    /\ Nearby(scraper, issues[i], issues[j], max_distance_km)
    /\ cluster' = Append(cluster, j)
    /\ used_indices' = MarkUsed(used_indices, j)
    /\ j' = j + 1
    /\ UNCHANGED <<scraper, issues, max_distance_km, pc, i, clusters, issue_category,
                   run, first_clusters>>
    /\ UNCHANGED ext_vars

\* an outer loop that comes back to the same seed after its cluster
EndClusterSameSeed ==
    /\ pc = "inner"
    /\ j > Len(issues)
    /\ clusters' = AppendCluster(clusters, cluster)
    /\ i' = i
    /\ pc' = "outer"
    /\ UNCHANGED <<scraper, issues, max_distance_km, j, cluster, used_indices,
                   issue_category, run, first_clusters>>
    /\ UNCHANGED ext_vars

\* the inner loop is over: `clusters.append(cluster)`, next outer iteration
EndCluster ==
    /\ pc = "inner"
    /\ j > Len(issues)
    /\ clusters' = AppendCluster(clusters, cluster)
    /\ i' = i + 1
    /\ pc' = "outer"
    /\ UNCHANGED <<scraper, issues, max_distance_km, j, cluster, used_indices,
                   issue_category, run, first_clusters>>
    /\ UNCHANGED ext_vars

\* the outer loop is over: `return clusters`
Return ==
    /\ pc = "outer"
    /\ i > Len(issues)
    /\ pc' = "done"
    /\ UNCHANGED <<scraper, issues, max_distance_km, i, j, cluster, used_indices,
                   clusters, issue_category, run, first_clusters>>
    /\ UNCHANGED ext_vars

\* the caller keeps the result and calls again with the same arguments
CallAgain ==
    /\ pc = "done"
    /\ run = 1
    /\ first_clusters' = clusters
    /\ run' = 2
    /\ pc' = "call"
    /\ UNCHANGED <<scraper, issues, max_distance_km, i, j, cluster, used_indices,
                   clusters, issue_category>>
    /\ UNCHANGED ext_vars

Next ==
    \/ ReturnEmpty
    \/ Enter
    \/ SkipUsed
    \/ StartCluster
    \/ SkipOther
    \/ OtherCategory
    \/ NotNearby
    \/ AppendOther
    \/ EndCluster
    \/ Return
    \/ CallAgain

Spec == Init /\ [][Next]_vars

(***************************************************************************)
(* The categorizers of the Boston scrapers, called on one record.          *)
(***************************************************************************)
CategorizeInit ==
    /\ ExtIdle
    /\ scraper \in BostonVariants
    /\ issues \in {<<r>> : r \in CategorizePool}
    /\ max_distance_km = DefaultMaxDistance[scraper]
    /\ pc = "categorize"
    /\ i = 0
    /\ j = 0
    /\ cluster = <<>>
    /\ used_indices = {}
    /\ clusters = <<>>
    /\ issue_category = None
    /\ run = 1
    /\ first_clusters = <<>>

\* categorize_boston_issue(issue) / categorize_issue(issue) returns
CategorizeCall ==
    /\ pc = "categorize"
    /\ issue_category' = CategorizeWith(scraper, issues[1])
    /\ pc' = "categorized"
    /\ UNCHANGED <<scraper, issues, max_distance_km, i, j, cluster, used_indices,
                   clusters, run, first_clusters>>
    /\ UNCHANGED ext_vars

CategorizeNext == CategorizeCall

CategorizeSpec == CategorizeInit /\ [][CategorizeNext]_vars

(***************************************************************************)
(* Values of a source row.  A CSV cell is a string or None; a JSON value   *)
(* is a string, a number or missing.  Numbers are in thousandths, as the   *)
(* coordinates of the records are.                                         *)
(***************************************************************************)
Absent == [kind |-> "none"]
Str(text) == [kind |-> "str", text |-> text]
Num(value) == [kind |-> "num", value |-> value]

\* Python's truth value: `if not value`
Truthy(v) ==
    CASE v.kind = "none" -> FALSE
      [] v.kind = "str" -> v.text # ""
      [] v.kind = "num" -> v.value # 0

\* Python's `a or b`
Or(a, b) == IF Truthy(a) THEN a ELSE b

\* what a conversion gives: <<value>>, or <<>> when it raises ValueError or TypeError
\* (the parsers catch the two together) or returns None
Nothing == <<>>
Some(value) == <<value>>

DigitOf ==
    ("0" :> 0) @@ ("1" :> 1) @@ ("2" :> 2) @@ ("3" :> 3) @@ ("4" :> 4) @@
    ("5" :> 5) @@ ("6" :> 6) @@ ("7" :> 7) @@ ("8" :> 8) @@ ("9" :> 9)

IsDigits(s) == \A k \in 1..Len(s) : SubSeq(s, k, k) \in DOMAIN DigitOf

RECURSIVE DigitsValue(_)
DigitsValue(s) ==
    IF Len(s) = 0 THEN 0
    ELSE DigitsValue(SubSeq(s, 1, Len(s) - 1)) * 10 + DigitOf[SubSeq(s, Len(s), Len(s))]

\* str.strip() of blanks and line ends
RECURSIVE Strip(_)
Strip(s) ==
    IF Len(s) = 0 THEN s
    ELSE IF SubSeq(s, 1, 1) \in {" ", "\n"} THEN Strip(SubSeq(s, 2, Len(s)))
    ELSE IF SubSeq(s, Len(s), Len(s)) \in {" ", "\n"}
         THEN Strip(SubSeq(s, 1, Len(s) - 1))
    ELSE s

\* float(text) for decimal text `[sign] digits [. digits]`, in thousandths; any
\* other text raises ValueError
FloatOfStr(text) ==
    LET s == Strip(text)
        signed == Len(s) > 0 /\ SubSeq(s, 1, 1) \in {"-", "+"}
        body == IF signed THEN SubSeq(s, 2, Len(s)) ELSE s
        dots == {k \in 1..Len(body) : SubSeq(body, k, k) = "."}
        dot == IF dots = {} THEN Len(body) + 1
               ELSE CHOOSE k \in dots : \A m \in dots : k <= m
        whole == SubSeq(body, 1, dot - 1)
        frac == SubSeq(body, dot + 1, Len(body))
        magnitude == DigitsValue(whole) * 1000 + DigitsValue(SubSeq(frac \o "000", 1, 3))
    IN  IF IsDigits(whole) /\ IsDigits(frac) /\ Len(whole) + Len(frac) > 0
        THEN Some(IF signed /\ SubSeq(s, 1, 1) = "-" THEN -magnitude ELSE magnitude)
        ELSE Nothing

\* float(value)
Float(v) ==
    CASE v.kind = "none" -> Nothing
      [] v.kind = "str" -> FloatOfStr(v.text)
      [] v.kind = "num" -> Some(v.value)

\* BostonEventScraper._safe_float
boston_safe_float(value) ==
    IF ~Truthy(value) \/ (value.kind = "str" /\ Strip(value.text) = "") THEN Nothing
    ELSE Float(value)

\* EnhancedEventScraper._safe_float
enhanced_safe_float(value) ==
    IF value.kind = "none" THEN Nothing ELSE Float(value)

\* a test that is passed by every number: `lat is None`
NotFloatIsNone(x) == x = Nothing
\* `not lat` on what _safe_float returned: None or 0.0
NotFloat(x) == x = Nothing \/ x = Some(0)

(***************************************************************************)
(* datetime.strptime for the formats "%Y-%m-%d" and "%Y-%m-%d?%H:%M:%S".   *)
(* A datetime is kept as the ordinal of its day.                           *)
(***************************************************************************)
IsLeap(y) == (y % 4 = 0 /\ y % 100 # 0) \/ y % 400 = 0

DaysInMonth(y, m) ==
    IF m = 2 THEN (IF IsLeap(y) THEN 29 ELSE 28)
    ELSE IF m \in {4, 6, 9, 11} THEN 30 ELSE 31

RECURSIVE DaysBeforeMonth(_, _)
DaysBeforeMonth(y, m) ==
    IF m = 1 THEN 0 ELSE DaysBeforeMonth(y, m - 1) + DaysInMonth(y, m - 1)

\* date(y, m, d).toordinal()
Ordinal(y, m, d) ==
    365 * (y - 1) + ((y - 1) \div 4) - ((y - 1) \div 100) + ((y - 1) \div 400)
        + DaysBeforeMonth(y, m) + d

\* strptime(s, "%Y-%m-%d")
StrpDate(s) ==
    IF /\ Len(s) = 10
       /\ SubSeq(s, 5, 5) = "-"
       /\ SubSeq(s, 8, 8) = "-"
       /\ IsDigits(SubSeq(s, 1, 4) \o SubSeq(s, 6, 7) \o SubSeq(s, 9, 10))
    THEN LET y == DigitsValue(SubSeq(s, 1, 4))
             m == DigitsValue(SubSeq(s, 6, 7))
             d == DigitsValue(SubSeq(s, 9, 10))
         IN  IF y >= 1 /\ m \in 1..12 /\ d \in 1..DaysInMonth(y, m)
             THEN Some(Ordinal(y, m, d)) ELSE Nothing
    ELSE Nothing

\* strptime(s, "%Y-%m-%d" + sep + "%H:%M:%S")
StrpDateTime(s, sep) ==
    IF /\ Len(s) = 19
       /\ SubSeq(s, 11, 11) = sep
       /\ SubSeq(s, 14, 14) = ":"
       /\ SubSeq(s, 17, 17) = ":"
       /\ IsDigits(SubSeq(s, 12, 13) \o SubSeq(s, 15, 16) \o SubSeq(s, 18, 19))
       /\ DigitsValue(SubSeq(s, 12, 13)) < 24
       /\ DigitsValue(SubSeq(s, 15, 16)) < 60
       /\ DigitsValue(SubSeq(s, 18, 19)) < 62
    THEN StrpDate(SubSeq(s, 1, 10))
    ELSE Nothing

\* s[:n]
Prefix(s, n) == SubSeq(s, 1, IF Len(s) < n THEN Len(s) ELSE n)

\* datetime.now(), and the days_back that scrape_boston passes
Now == Ordinal(2026, 11, 1)
DaysBack == 21

\* BostonEventScraper._parse_boston_date
parse_boston_date(date_str) ==
    IF date_str = "" \/ Strip(date_str) = "" THEN Nothing
    ELSE IF StrpDateTime(Strip(date_str), " ") # Nothing
         THEN StrpDateTime(Strip(date_str), " ")
    ELSE IF StrpDate(Strip(date_str)) # Nothing THEN StrpDate(Strip(date_str))
    ELSE Nothing

\* FinalBostonScraper._parse_date
final_parse_date(date_str) ==
    IF date_str = "" THEN Nothing
    ELSE IF StrpDateTime(Prefix(date_str, 19), " ") # Nothing
         THEN StrpDateTime(Prefix(date_str, 19), " ")
    ELSE IF StrpDate(Prefix(date_str, 10)) # Nothing
         THEN StrpDate(Prefix(date_str, 10))
    ELSE Nothing

\* re.sub(r'T.*', '', s)
BeforeT(s) ==
    LET ts == {k \in 1..Len(s) : SubSeq(s, k, k) = "T"}
    IN  IF ts = {} THEN s
        ELSE SubSeq(s, 1, (CHOOSE k \in ts : \A m \in ts : k <= m) - 1)

\* EnhancedEventScraper._parse_socrata_date
parse_socrata_date(date_str) ==
    IF date_str = "" THEN Nothing
    ELSE IF StrpDate(BeforeT(date_str)) # Nothing THEN StrpDate(BeforeT(date_str))
    ELSE IF StrpDateTime(Prefix(BeforeT(date_str), 19), "T") # Nothing
         THEN StrpDateTime(Prefix(BeforeT(date_str), 19), "T")
    ELSE Nothing

\* Open311Scraper._parse_datetime, for text without a time zone
open311_parse_datetime(dt_str) ==
    IF dt_str = "" THEN Nothing
    ELSE IF StrpDateTime(dt_str, "T") # Nothing THEN StrpDateTime(dt_str, "T")
    ELSE IF StrpDateTime(dt_str, " ") # Nothing THEN StrpDateTime(dt_str, " ")
    ELSE Nothing

(***************************************************************************)
(* The parsers: _parse_boston_csv, read_boston_csv, _parse_socrata_data,   *)
(* _parse_issues.  A row holds the fields that the parser reads.           *)
(***************************************************************************)
MaxRows == 2

\* FinalBostonScraper.process_boston_data(limit=100) -> read_boston_csv(limit)
ReadLimit == 100

\* a row of the Boston 311 CSV as BostonEventScraper reads it
BostonRow(id, open_dt, subject, lat, lng) ==
    [case_enquiry_id |-> id, open_dt |-> open_dt, case_title |-> "",
     Subject |-> subject, Reason |-> "", Department |-> "",
     Latitude |-> lat, Longitude |-> lng]

\* a row of the Boston 311 CSV as FinalBostonScraper reads it
FinalRow(id, open_dt, subject, lat, lng) ==
    [case_enquiry_id |-> id, open_dt |-> open_dt, case_title |-> "",
     subject |-> subject, reason |-> "", department |-> "",
     latitude |-> lat, longitude |-> lng]

\* an item of a Socrata response; `lat` is the second name tried for the latitude,
\* `lng` and `long` the second and third for the longitude
SocrataItem(id, created_date, complaint_type, latitude, lat, lng) ==
    [unique_key |-> id, created_date |-> created_date,
     complaint_type |-> complaint_type, descriptor |-> "",
     latitude |-> latitude, lat |-> lat,
     longitude |-> Absent, lng |-> lng, long |-> Absent]

\* a request of an Open311 response
Open311Request(id, requested_datetime, service_name, lat, long) ==
    [service_request_id |-> id, requested_datetime |-> requested_datetime,
     service_name |-> service_name, service_code |-> "", description |-> "",
     lat |-> lat, long |-> long]

\* cells that hold no number: missing, empty, blank, not numeric
BadCells == {Absent, Str(""), Str(" "), Str("abc")}
GoodLat == Str("42.36")
GoodLng == Str("-71.06")
\* latitudes and longitudes tried next to a good coordinate on the other axis
LatCells == BadCells \cup {GoodLat, Str("0"), Str("95.5"), Num(42360), Num(95500)}
LngCells == BadCells \cup {Str("0.0"), Str("-200"), Num(0), Num(-200000)}

\* <<latitude, longitude, date, subject>> of the rows tried; dates are given
\* without the time of day
RowShapes ==
    {<<lat, GoodLng, "2026-10-25", "Graffiti Removal">> : lat \in LatCells}
    \cup {<<GoodLat, lng, "2026-10-25", "Graffiti Removal">> : lng \in LngCells}
    \cup {<<GoodLat, GoodLng, date, "Graffiti Removal">> :
              date \in {"", "soon", "2026-01-05"}}
    \cup {<<GoodLat, GoodLng, "2026-10-25", "Pothole">>}

\* a CSV cell is a string or None
IsCsvCell(v) == v.kind # "num"

\* the name of a shape, used as the row's identifier
ShapeId(shape) ==
    ToString(shape[1]) \o "/" \o ToString(shape[2]) \o "/" \o shape[3] \o "/" \o shape[4]

\* rows with good coordinates and date whose text matches a table through another
\* field than the subject, through a field that only one of the two scrapers
\* reads, or in another case of letters
TextRows(s) ==
    IF s = "boston"
    THEN {[BostonRow("reason", "2026-10-25", "Pothole", GoodLat, GoodLng)
              EXCEPT !.Reason = "Noise Complaint"],
          [BostonRow("department", "2026-10-25", "Pothole", GoodLat, GoodLng)
              EXCEPT !.Department = "ISD"],
          [BostonRow("title", "2026-10-25", "Pothole", GoodLat, GoodLng)
              EXCEPT !.case_title = "Graffiti Removal"],
          BostonRow("upper", "2026-10-25", "RECYCLING", GoodLat, GoodLng)}
    ELSE {[FinalRow("reason", "2026-10-25", "Pothole", GoodLat, GoodLng)
              EXCEPT !.reason = "Noise Complaint"],
          [FinalRow("department", "2026-10-25", "Pothole", GoodLat, GoodLng)
              EXCEPT !.department = "ISD"],
          [FinalRow("title", "2026-10-25", "Pothole", GoodLat, GoodLng)
              EXCEPT !.case_title = "Graffiti Removal"],
          FinalRow("upper", "2026-10-25", "RECYCLING", GoodLat, GoodLng)}

RowPool(s) ==
    CASE s = "boston" ->
            {BostonRow(ShapeId(x), x[3], x[4], x[1], x[2]) :
                x \in {y \in RowShapes : IsCsvCell(y[1]) /\ IsCsvCell(y[2])}}
            \cup TextRows(s)
      [] s = "final" ->
            {FinalRow(ShapeId(x), x[3], x[4], x[1], x[2]) :
                x \in {y \in RowShapes : IsCsvCell(y[1]) /\ IsCsvCell(y[2])}}
            \cup TextRows(s)
      [] s = "enhanced" ->
            {SocrataItem(ShapeId(x), x[3], x[4], x[1], Absent, x[2]) : x \in RowShapes}
            \cup {SocrataItem("lat", "2026-10-25", "Graffiti", bad, GoodLat, GoodLng) :
                     bad \in {Absent, Str(""), Str("abc")}}
      [] s = "open311" ->
            {Open311Request(ShapeId(x),
                            IF x[3] = "2026-10-25" THEN "2026-10-25T08:30:00" ELSE x[3],
                            x[4], x[1], x[2]) : x \in RowShapes}

\* a filter that looks at the subject alone
boston_is_environmental_issue_by_subject(row) ==
    \E k \in 1..Len(CategoryOrder) :
        BostonChecks(CategoryOrder[k], Lower(row.Subject), Lower(row.Reason),
                     Lower(row.Department))[1]

\* BostonEventScraper._is_environmental_issue
boston_is_environmental_issue(row) ==
    \E k \in 1..Len(CategoryOrder) :
        LET checks == BostonChecks(CategoryOrder[k], Lower(row.Subject),
                                   Lower(row.Reason), Lower(row.Department))
        IN  checks[1] \/ checks[2] \/ checks[3]

\* FinalBostonScraper._is_environmental_issue
final_is_environmental_issue(row) ==
    \E k \in 1..Len(CategoryOrder) :
        LET checks == FinalChecks(CategoryOrder[k], Lower(row.case_title),
                                  Lower(row.subject), Lower(row.reason))
        IN  checks[1] \/ checks[2] \/ checks[3]

\* the body of the loop of _parse_boston_csv: the issues that one row adds
parse_boston_row(row) ==
    LET open_dt == parse_boston_date(row.open_dt)
        lat == boston_safe_float(row.Latitude)
        lng == boston_safe_float(row.Longitude)
    IN  IF open_dt = Nothing \/ open_dt[1] < Now - DaysBack THEN <<>>
        ELSE IF ~boston_is_environmental_issue(row) THEN <<>>
        ELSE IF NotFloat(lat) \/ NotFloat(lng) THEN <<>>
        ELSE <<[case_enquiry_id |-> row.case_enquiry_id]
               @@ BostonIssue(row.case_title, row.Subject, row.Reason, row.Department,
                              [lat |-> lat[1], lng |-> lng[1]])>>

\* the body of the loop of read_boston_csv
parse_final_row(row) ==
    IF ~Truthy(row.latitude) \/ ~Truthy(row.longitude) THEN <<>>
    ELSE IF final_parse_date(row.open_dt) = Nothing THEN <<>>
    ELSE IF ~final_is_environmental_issue(row) THEN <<>>
    ELSE IF Float(row.latitude) = Nothing \/ Float(row.longitude) = Nothing THEN <<>>
    ELSE <<[case_enquiry_id |-> row.case_enquiry_id]
           @@ BostonIssue(row.case_title, row.subject, row.reason, row.department,
                          [lat |-> Float(row.latitude)[1],
                           lng |-> Float(row.longitude)[1]])>>

\* the body of the loop of _parse_socrata_data
parse_socrata_item(item) ==
    LET lat == enhanced_safe_float(Or(item.latitude, item.lat))
        lng == enhanced_safe_float(Or(Or(item.longitude, item.lng), item.long))
    IN  IF NotFloat(lat) \/ NotFloat(lng) THEN <<>>
        ELSE IF parse_socrata_date(item.created_date) = Nothing THEN <<>>
        ELSE <<[unique_key |-> item.unique_key]
               @@ EnvironmentalIssue(item.complaint_type, item.descriptor,
                                     [lat |-> lat[1], lng |-> lng[1]])>>

\* a loop body that puts 0.0 where a coordinate gives no number
parse_open311_request_zero_default(request_data) ==
    IF open311_parse_datetime(request_data.requested_datetime) = Nothing THEN <<>>
    ELSE LET lat == Float(request_data.lat)
             lng == Float(request_data.long)
         IN  <<[service_request_id |-> request_data.service_request_id]
               @@ Open311Issue(request_data.service_name, request_data.service_code,
                               request_data.description,
                               [lat |-> IF lat = Nothing THEN 0 ELSE lat[1],
                                lng |-> IF lng = Nothing THEN 0 ELSE lng[1]])>>

\* the body of the loop of _parse_issues
parse_open311_request(request_data) ==
    IF ~Truthy(request_data.lat) \/ ~Truthy(request_data.long) THEN <<>>
    ELSE IF open311_parse_datetime(request_data.requested_datetime) = Nothing THEN <<>>
    ELSE IF Float(request_data.lat) = Nothing \/ Float(request_data.long) = Nothing
         THEN <<>>
    ELSE <<[service_request_id |-> request_data.service_request_id]
           @@ Open311Issue(request_data.service_name, request_data.service_code,
                               request_data.description,
                           [lat |-> Float(request_data.lat)[1],
                            lng |-> Float(request_data.long)[1]])>>

ParseInit ==
    /\ scraper \in Scrapers
    /\ rows \in ListsUpTo(RowPool(scraper), MaxRows)
    /\ row_index = 1
    /\ issues = <<>>
    /\ pc = "parse"
    /\ ClusterIdle
    /\ RunIdle
    /\ AuxIdle
    /\ CitiesIdle

\* one turn of `for row in csv_reader` in _parse_boston_csv
ParseBostonRow ==
    /\ pc = "parse"
    /\ scraper = "boston"
    /\ row_index <= Len(rows)
    /\ issues' = issues \o parse_boston_row(rows[row_index])
    /\ row_index' = row_index + 1
    /\ UNCHANGED <<scraper, max_distance_km, pc, i, j, cluster, used_indices,
                   clusters, issue_category, run, first_clusters, rows>>
    /\ UNCHANGED <<run_vars, aux_vars, cities_vars>>

\* one turn of `for i, row in enumerate(reader)` in read_boston_csv
ParseFinalRow ==
    /\ pc = "parse"
    /\ scraper = "final"
    /\ row_index <= Len(rows)
    /\ row_index - 1 < ReadLimit
    /\ issues' = issues \o parse_final_row(rows[row_index])
    /\ row_index' = row_index + 1
    /\ UNCHANGED <<scraper, max_distance_km, pc, i, j, cluster, used_indices,
                   clusters, issue_category, run, first_clusters, rows>>
    /\ UNCHANGED <<run_vars, aux_vars, cities_vars>>

\* one turn of `for item in data` in _parse_socrata_data
ParseSocrataItem ==
    /\ pc = "parse"
    /\ scraper = "enhanced"
    /\ row_index <= Len(rows)
    /\ issues' = issues \o parse_socrata_item(rows[row_index])
    /\ row_index' = row_index + 1
    /\ UNCHANGED <<scraper, max_distance_km, pc, i, j, cluster, used_indices,
                   clusters, issue_category, run, first_clusters, rows>>
    /\ UNCHANGED <<run_vars, aux_vars, cities_vars>>

\* one turn of `for request_data in requests_data` in _parse_issues
ParseOpen311Request ==
    /\ pc = "parse"
    /\ scraper = "open311"
    /\ row_index <= Len(rows)
    /\ issues' = issues \o parse_open311_request(rows[row_index])
    /\ row_index' = row_index + 1
    /\ UNCHANGED <<scraper, max_distance_km, pc, i, j, cluster, used_indices,
                   clusters, issue_category, run, first_clusters, rows>>
    /\ UNCHANGED <<run_vars, aux_vars, cities_vars>>

\* `return issues`: the rows are exhausted, or read_boston_csv reached its limit
ParseReturn ==
    /\ pc = "parse"
    /\ \/ row_index > Len(rows)
       \/ scraper = "final" /\ row_index - 1 >= ReadLimit
    /\ pc' = "parsed"
    /\ UNCHANGED <<scraper, issues, max_distance_km, i, j, cluster, used_indices,
                   clusters, issue_category, run, first_clusters>>
    /\ UNCHANGED ext_vars

ParseNext ==
    \/ ParseBostonRow
    \/ ParseFinalRow
    \/ ParseSocrataItem
    \/ ParseOpen311Request
    \/ ParseReturn

ParseSpec == ParseInit /\ [][ParseNext]_vars

(***************************************************************************)
(* The run loops: scrape_boston, process_boston_data, and scrape_city of   *)
(* the two multi-city scrapers inside one turn of scrape_all_cities.       *)
(* Time is counted in milliseconds of asyncio.sleep.                       *)
(***************************************************************************)
MaxRunIssues == 2

\* the names of CITIES; the Boston scrapers have the one city
Cities(s) ==
    CASE s \in BostonVariants -> {"Boston"}
      [] s = "enhanced" -> {"New York City", "Chicago", "San Francisco", "Los Angeles"}
      [] s = "open311" -> {"Baltimore", "Bloomington", "Brookline", "Chicago", "Boston"}

\* the sleep after each cluster: asyncio.sleep(1.0), or city.rate_limit_delay with
\* the defaults of SocrataConfig and CityConfig, which no entry of CITIES overrides
NoRateLimitDelay == [boston |-> 0, final |-> 0, enhanced |-> 0, open311 |-> 0]
RateLimitDelay == [boston |-> 1000, final |-> 1000, enhanced |-> 500, open311 |-> 1000]

\* scrape_all_cities: asyncio.sleep(2.0) between cities
CityPause == [enhanced |-> 2000, open311 |-> 2000]

\* Open311Scraper.ENVIRONMENTAL_KEYWORDS and ENVIRONMENTAL_SERVICE_CODES
ENVIRONMENTAL_KEYWORDS ==
    <<"waste", "trash", "garbage", "recycling", "litter", "dumping",
      "pollution", "water", "air quality", "environmental", "cleanup",
      "hazardous", "toxic", "contamination", "spill", "leak",
      "graffiti", "vandalism", "park", "tree", "vegetation",
      "sanitation", "pest", "rodent", "illegal dumping">>

ENVIRONMENTAL_SERVICE_CODES == <<"001", "002", "003", "PWD", "DPW", "ENV">>

\* Open311Scraper.is_environmental_issue
is_environmental_issue(issue) ==
    \/ AnyIn(ENVIRONMENTAL_KEYWORDS, Lower(issue.service_name \o " " \o issue.description))
    \/ Member(issue.service_code, ENVIRONMENTAL_SERVICE_CODES)

\* " ".join(f"{issue.service_name} {issue.description}" for issue in cluster)
RECURSIVE JoinText(_)
JoinText(members) ==
    IF members = <<>> THEN ""
    ELSE Head(members).service_name \o " " \o Head(members).description
         \o (IF Len(members) > 1 THEN " " ELSE "") \o JoinText(Tail(members))

\* Open311Scraper._determine_event_category
determine_event_category(members) ==
    LET text == Lower(JoinText(members))
    IN  IF AnyIn(<<"cleanup", "trash", "waste", "litter", "dumping">>, text)
        THEN "cleanup"
        ELSE IF AnyIn(<<"advocacy", "policy", "petition", "meeting">>, text)
        THEN "advocacy"
        ELSE IF AnyIn(<<"education", "awareness", "workshop", "training">>, text)
        THEN "education"
        ELSE "cleanup"

\* the records of a cluster, in the cluster's order
MembersOf(list, c) == [k \in 1..Len(c) |-> list[c[k]]]

\* create_events_from_cluster: `if not category: category = EventCategory.cleanup`
EnhancedEventDefaultOther == "other"
EnhancedEventDefault == "cleanup"

\* the category that the create-event function of each scraper gives the event
EventCategoryOf(s, members) ==
    CASE s \in BostonVariants -> Categorize(s, members[1])
      [] s = "enhanced" ->
            IF Categorize(s, members[1]) = None THEN EnhancedEventDefault
            ELSE Categorize(s, members[1])
      [] s = "open311" -> determine_event_category(members)

RECURSIVE Sum(_)
Sum(values) == IF values = <<>> THEN 0 ELSE Head(values) + Sum(Tail(values))

\* `sum(...) / len(cluster)`, in thousandths of a degree; the alternative takes the
\* first member's coordinate
MeanFirst(values) == values[1]
Mean(values) == Sum(values) \div Len(values)

center_lat(s, members) == Mean([k \in 1..Len(members) |-> Latitude(s, members[k])])
center_lng(s, members) == Mean([k \in 1..Len(members) |-> Longitude(s, members[k])])

\* `created_events.append(event)`; the alternative appends it twice
AppendEventTwice(list, event) == list \o <<event, event>>
AppendEvent(list, event) == Append(list, event)

\* what a fetch can hand to the run loop
RunLists(s) == ListsUpTo(RunPool(s), MaxRunIssues)

RunInit ==
    /\ scraper \in Scrapers
    /\ city \in Cities(scraper)
    /\ use_fallback \in (IF scraper = "open311" THEN BOOLEAN ELSE {FALSE})
    /\ issues = <<>>
    /\ pc = "run"
    /\ ClusterIdle
    /\ ParseIdle
    /\ AuxIdle
    /\ CitiesIdle
    /\ RunFresh

\* `return []` before the loop
ReturnNothing ==
    /\ pc' = "returned"
    /\ UNCHANGED <<issues, clusters, processed_issues_count, cluster_index>>

\* `clusters = self.cluster_nearby_issues(issues)` and the start of the loop
StartLoop(list) ==
    /\ issues' = list
    /\ clusters' = cluster_nearby_issues(scraper, list, DefaultMaxDistance[scraper])
    /\ cluster_index' = 1
    /\ pc' = "loop"

\* what the steps before the loop leave alone
BeforeLoopUnchanged ==
    UNCHANGED <<scraper, cluster_locals, parse_vars, aux_vars, cities_vars, city,
                use_fallback, session,
                created_events_count, created_events, results, raised, markers, events,
                marker_calls, event_calls, create_calls, slept, gap, sleeps>>

\* scrape_boston up to its loop
ScrapeBoston ==
    /\ pc = "run"
    /\ scraper = "boston"
    /\ \E fetched \in RunLists(scraper) :
          IF fetched = <<>> THEN ReturnNothing
          ELSE /\ processed_issues_count' = Len(fetched)
               /\ StartLoop(fetched)
    /\ BeforeLoopUnchanged

\* process_boston_data up to its loop
ProcessBostonData ==
    /\ pc = "run"
    /\ scraper = "final"
    /\ \E fetched \in RunLists(scraper) :
          IF fetched = <<>> THEN ReturnNothing
          ELSE /\ processed_issues_count' = Len(fetched)
               /\ StartLoop(fetched)
    /\ BeforeLoopUnchanged

\* EnhancedEventScraper.scrape_city up to its loop
EnhancedScrapeCity ==
    /\ pc = "run"
    /\ scraper = "enhanced"
    /\ \E fetched \in RunLists(scraper) :
          IF fetched = <<>> THEN ReturnNothing
          ELSE /\ processed_issues_count' = processed_issues_count + Len(fetched)
               /\ StartLoop(fetched)
    /\ BeforeLoopUnchanged

\* Open311Scraper.scrape_city up to its loop; a failed request gives no issues
Open311ScrapeCity ==
    /\ pc = "run"
    /\ scraper = "open311"
    /\ \E all_issues \in RunLists(scraper) :
          LET env_issues == SelectSeq(all_issues, is_environmental_issue)
          IN  IF env_issues = <<>> THEN ReturnNothing
              ELSE /\ StartLoop(env_issues)
                   /\ UNCHANGED processed_issues_count
    /\ BeforeLoopUnchanged

\* a create-event function that goes on to the event whatever create_marker returned
CreateMarkerUnchecked ==
    /\ pc = "loop"
    /\ cluster_index <= Len(clusters)
    /\ Len(clusters[cluster_index]) >= 1
    /\ create_calls' = Append(create_calls, cluster_index)
    /\ gap' = IF create_calls = <<>> THEN Nothing ELSE Some(slept)
    /\ slept' = 0
    /\ marker_calls' = Append(marker_calls, cluster_index)
    /\ \E created_marker \in BOOLEAN :
          markers' =
              IF created_marker
              THEN Append(markers,
                          [latitude |-> center_lat(scraper,
                               MembersOf(issues, clusters[cluster_index])),
                           longitude |-> center_lng(scraper,
                               MembersOf(issues, clusters[cluster_index])),
                           cluster |-> cluster_index])
              ELSE markers
    /\ pc' = "event"
    /\ UNCHANGED <<scraper, issues, clusters, cluster_locals, parse_vars, aux_vars, cities_vars,
                   city,
                   use_fallback, session, created_events_count, processed_issues_count,
                   created_events, results, raised, events, event_calls, sleeps,
                   cluster_index>>

\* the create-event function is called for the cluster, works out the category and
\* the center, and calls SupabaseService.create_marker, which returns the marker
\* inserted or None
CreateMarker ==
    /\ pc = "loop"
    /\ cluster_index <= Len(clusters)
    /\ Len(clusters[cluster_index]) >= 1
    /\ create_calls' = Append(create_calls, cluster_index)
    /\ gap' = IF create_calls = <<>> THEN Nothing ELSE Some(slept)
    /\ slept' = 0
    /\ marker_calls' = Append(marker_calls, cluster_index)
    /\ \E created_marker \in BOOLEAN :
          IF created_marker
          THEN /\ markers' =
                    Append(markers,
                           [latitude |-> center_lat(scraper,
                                MembersOf(issues, clusters[cluster_index])),
                            longitude |-> center_lng(scraper,
                                MembersOf(issues, clusters[cluster_index])),
                            cluster |-> cluster_index])
               /\ pc' = "event"
          ELSE /\ markers' = markers
               /\ pc' = "sleep"
    /\ UNCHANGED <<scraper, issues, clusters, cluster_locals, parse_vars, aux_vars, cities_vars,
                   city,
                   use_fallback, session, created_events_count, processed_issues_count,
                   created_events, results, raised, events, event_calls, sleeps,
                   cluster_index>>

\* the create-event function calls SupabaseService.create_event, which returns the
\* event inserted or None; an event returned is counted and appended
CreateEvent ==
    /\ pc = "event"
    /\ event_calls' = Append(event_calls, cluster_index)
    /\ \E created_event \in BOOLEAN :
          IF created_event
          THEN LET event ==
                       [marker_id |-> Len(markers),
                        category |-> EventCategoryOf(scraper,
                                        MembersOf(issues, clusters[cluster_index])),
                        cluster |-> cluster_index]
               IN  /\ events' = Append(events, event)
                   /\ created_events' = AppendEvent(created_events, event)
                   /\ created_events_count' = created_events_count + 1
          ELSE UNCHANGED <<events, created_events, created_events_count>>
    /\ pc' = "sleep"
    /\ UNCHANGED <<scraper, issues, clusters, cluster_locals, parse_vars, aux_vars, cities_vars,
                   city,
                   use_fallback, session, processed_issues_count, results, raised,
                   markers, marker_calls, create_calls, slept, gap, sleeps,
                   cluster_index>>

\* `await asyncio.sleep(...)` at the end of the loop body, and the next cluster
Sleep ==
    /\ pc = "sleep"
    /\ slept' = slept + RateLimitDelay[scraper]
    /\ sleeps' = sleeps + 1
    /\ cluster_index' = cluster_index + 1
    /\ pc' = "loop"
    /\ UNCHANGED <<scraper, issues, clusters, cluster_locals, parse_vars, aux_vars, cities_vars,
                   city,
                   use_fallback, session, created_events_count, processed_issues_count,
                   created_events, results, raised, markers, events, marker_calls,
                   event_calls, create_calls, gap>>

\* Open311Scraper.scrape_city after its loop: the fallback is wanted
FallbackWanted == scraper = "open311" /\ created_events = <<>> /\ use_fallback

\* the loop is over: `return created_events`
ReturnEvents ==
    /\ pc = "loop"
    /\ cluster_index > Len(clusters)
    /\ ~FallbackWanted
    /\ processed_issues_count' =
          IF scraper = "open311" THEN processed_issues_count + Len(issues)
          ELSE processed_issues_count
    /\ pc' = "returned"
    /\ UNCHANGED <<scraper, issues, clusters, cluster_locals, parse_vars, aux_vars, cities_vars,
                   city,
                   use_fallback, session, created_events_count, created_events,
                   results, raised, markers, events, marker_calls, event_calls,
                   create_calls, slept, gap, sleeps, cluster_index>>

\* Open311Scraper.scrape_city: `created_events = self.create_fallback_events(city.name)`;
\* the class has no attribute create_fallback_events, so the call raises
CreateFallbackEvents ==
    /\ pc = "loop"
    /\ cluster_index > Len(clusters)
    /\ FallbackWanted
    /\ processed_issues_count' = processed_issues_count + Len(issues)
    /\ raised' = "AttributeError"
    /\ pc' = "raised"
    /\ UNCHANGED <<scraper, issues, clusters, cluster_locals, parse_vars, aux_vars, cities_vars,
                   city,
                   use_fallback, session, created_events_count, created_events,
                   results, markers, events, marker_calls, event_calls,
                   create_calls, slept, gap, sleeps, cluster_index>>

\* scrape_all_cities: `results[city.name] = events` and the sleep between cities,
\* or `results[city.name] = []` when scrape_city raised
RecordCity ==
    /\ scraper \in {"enhanced", "open311"}
    /\ pc \in {"returned", "raised"}
    /\ results' = Append(results,
                         [name |-> city,
                          events |-> IF pc = "raised" THEN <<>> ELSE created_events])
    /\ slept' = IF pc = "raised" THEN slept ELSE slept + CityPause[scraper]
    /\ pc' = "recorded"
    /\ UNCHANGED <<scraper, issues, clusters, cluster_locals, parse_vars, aux_vars, cities_vars,
                   city,
                   use_fallback, session, created_events_count, processed_issues_count,
                   created_events, raised, markers, events, marker_calls, event_calls,
                   create_calls, gap, sleeps, cluster_index>>

RunNext ==
    \/ ScrapeBoston
    \/ ProcessBostonData
    \/ EnhancedScrapeCity
    \/ Open311ScrapeCity
    \/ CreateMarker
    \/ CreateEvent
    \/ Sleep
    \/ ReturnEvents
    \/ CreateFallbackEvents
    \/ RecordCity

RunSpec == RunInit /\ [][RunNext]_vars

(***************************************************************************)
(* The schedule of an event in the create-event functions.  A datetime is  *)
(* the ordinal of its day, the second of the day and the microsecond.      *)
(***************************************************************************)
MaxDaysAhead == 13

datetime(day, hour, minute, second, microsecond) ==
    [day |-> day, second |-> hour * 3600 + minute * 60 + second,
     microsecond |-> microsecond]

\* the values of datetime.now() tried: every weekday twice, around 10:00 and at
\* the ends of the day
Clock ==
    {datetime(Now + d, t[1], t[2], t[3], t[4]) :
        d \in 0..MaxDaysAhead,
        t \in {<<0, 0, 0, 0>>, <<9, 59, 59, 999999>>, <<10, 0, 0, 0>>,
               <<21, 0, 0, 1>>, <<23, 59, 59, 999999>>}}

\* datetime.weekday(): Monday is 0, Saturday 5, Sunday 6
weekday(t) == (t.day + 6) % 7

\* `days_until_saturday = (5 - now.weekday()) % 7`, then 7 in place of 0; the
\* alternative leaves the 0
days_until_saturday_unfixed(t) == (5 - weekday(t)) % 7
days_until_saturday(t) ==
    IF (5 - weekday(t)) % 7 = 0 THEN 7 ELSE (5 - weekday(t)) % 7

\* t.replace(hour=10, minute=0, second=0, microsecond=0)
ReplaceTime(t) == datetime(t.day, 10, 0, 0, 0)

\* t + timedelta(days=n), t + timedelta(hours=n)
PlusDays(t, n) == [t EXCEPT !.day = @ + n]
PlusHours(t, n) ==
    [t EXCEPT !.day = @ + ((t.second + n * 3600) \div 86400),
              !.second = (t.second + n * 3600) % 86400]

ScheduleInit ==
    /\ scraper \in Scrapers
    /\ issues = <<>>
    /\ pc = "schedule"
    /\ ClusterIdle
    /\ ParseIdle
    /\ RunIdle
    /\ CitiesIdle
    /\ now \in Clock
    /\ event_start = <<>>
    /\ event_end = <<>>
    /\ claude_api_key = <<>>
    /\ content_category = None
    /\ api_calls = <<>>
    /\ content = <<>>

\* `event_start = now.replace(...) + timedelta(days=days_until_saturday)` and
\* `event_end = event_start + timedelta(hours=3)`
Schedule ==
    /\ pc = "schedule"
    /\ event_start' = PlusDays(ReplaceTime(now), days_until_saturday(now))
    /\ event_end' = PlusHours(event_start', 3)
    /\ pc' = "scheduled"
    /\ UNCHANGED <<scraper, issues, clusters, cluster_locals, parse_vars, run_vars, cities_vars,
                   now,
                   claude_api_key, content_category, api_calls, content>>

ScheduleNext == Schedule

ScheduleSpec == ScheduleInit /\ [][ScheduleNext]_vars

(***************************************************************************)
(* The content generators of the Boston scrapers: generate_claude_content  *)
(* and generate_event_with_claude.  An answer of the Claude API is an      *)
(* exception raised by the request, or a response with a status and, for   *)
(* status 200, the value found at result["content"][0]["text"].            *)
(***************************************************************************)
MaxContentIssues == 2

\* a BostonIssue with its neighborhood
InNeighborhood(issue, neighborhood) == [neighborhood |-> neighborhood] @@ issue

Recycling(p) ==
    BostonIssue("Recycling Cart Request", "Recycling", "Recycling Request", "Mayor's Office", p)

\* the records of the clusters tried
ContentPool ==
    {InNeighborhood(Graffiti(P0), "Roxbury"), InNeighborhood(Graffiti(P4), ""),
     InNeighborhood(Noise(P0), "Roxbury"), InNeighborhood(Recycling(P4), "")}

\* os.getenv("CLAUDE_API_KEY"): unset, empty, or a key
ApiKeys == {Absent, Str(""), Str("sk-ant-key")}

\* the request raises; a response with a status other than 200; a response with
\* status 200 and no text in it; a response with status 200 and a text value
ApiRaises == [kind |-> "raise", status |-> 0, text |-> Nothing]
ApiStatus(status) == [kind |-> "response", status |-> status, text |-> Nothing]
ApiNoText == [kind |-> "response", status |-> 200, text |-> Nothing]
ApiText(value) == [kind |-> "response", status |-> 200, text |-> Some(value)]

ApiFailures == {ApiRaises, ApiStatus(401), ApiStatus(529), ApiNoText, ApiText(Absent)}

\* the answers tried
ApiAnswers(s) ==
    ApiFailures \cup
    (IF s = "boston"
     THEN {ApiText(Str("TITLE: Park Cleanup\nDESCRIPTION: Join us.\nBring gloves.\n")),
           ApiText(Str("TITLE: Park Cleanup")),
           ApiText(Str("DESCRIPTION: Join us.")),
           ApiText(Str("I cannot help with that.")),
           ApiText(Str(""))}
     ELSE {ApiText(Str(" Park Cleanup Day\n")), ApiText(Str("Join us.")),
           ApiText(Str("")), ApiText(Str(" \n"))})

\* content.split('\n')
RECURSIVE SplitLines(_)
SplitLines(s) ==
    LET ends == {k \in 1..Len(s) : SubSeq(s, k, k) = "\n"}
        first == CHOOSE k \in ends : \A m \in ends : k <= m
    IN  IF ends = {} THEN <<s>>
        ELSE <<SubSeq(s, 1, first - 1)>> \o SplitLines(SubSeq(s, first + 1, Len(s)))

\* line.replace(old, "")
RECURSIVE Remove(_, _)
Remove(s, old) ==
    IF Len(s) < Len(old) THEN s
    ELSE IF SubSeq(s, 1, Len(old)) = old THEN Remove(SubSeq(s, Len(old) + 1, Len(s)), old)
    ELSE SubSeq(s, 1, 1) \o Remove(SubSeq(s, 2, Len(s)), old)

\* the loop of _parse_claude_response over the lines
RECURSIVE ParseLines(_, _, _, _)
ParseLines(lines, title, description, current_section) ==
    IF lines = <<>> THEN [title |-> title, description |-> description]
    ELSE LET line == Strip(Head(lines))
         IN  IF Prefix(line, 6) = "TITLE:"
             THEN ParseLines(Tail(lines), Strip(Remove(line, "TITLE:")), description, "title")
             ELSE IF Prefix(line, 12) = "DESCRIPTION:"
             THEN ParseLines(Tail(lines), title, Strip(Remove(line, "DESCRIPTION:")),
                             "description")
             ELSE IF current_section = "description" /\ line # ""
             THEN ParseLines(Tail(lines), title, description \o " " \o line,
                             current_section)
             ELSE ParseLines(Tail(lines), title, description, current_section)

DefaultTitle == "Community Environmental Action"
DefaultDescription == "Join us for environmental community action in Boston."

\* BostonEventScraper._parse_claude_response; a value that is no string raises
\* inside its try
parse_claude_response(value) ==
    IF value.kind # "str"
    THEN [title |-> DefaultTitle, description |-> DefaultDescription]
    ELSE LET parsed == ParseLines(SplitLines(Strip(value.text)), "", "", None)
         IN  [title |-> IF parsed.title = "" THEN DefaultTitle ELSE parsed.title,
              description |-> IF parsed.description = "" THEN DefaultDescription
                              ELSE parsed.description]

\* BostonEventScraper._generate_fallback_content; `issues[0]` raises IndexError on
\* an empty list.  The bullet sign of the source is written * here.
generate_fallback_content(list, cat) ==
    IF list = <<>> THEN Nothing
    ELSE LET primary_issue == list[1]
             subject == Lower(primary_issue.subject)
             title ==
                 IF cat = "cleanup"
                 THEN (IF In("graffiti", subject) THEN "Community Graffiti Removal Event"
                       ELSE IF In("dumping", subject) THEN "Illegal Dumping Cleanup Drive"
                       ELSE IF In("litter", subject) THEN "Neighborhood Litter Cleanup"
                       ELSE "Environmental Cleanup Event")
                 ELSE IF cat = "advocacy"
                 THEN (IF In("air", subject) THEN "Air Quality Community Meeting"
                       ELSE IF In("noise", subject) THEN "Noise Pollution Action Group"
                       ELSE "Environmental Advocacy Meeting")
                 ELSE "Environmental Education Workshop"
             description ==
                 "Join us for a community environmental event addressing "
                 \o subject \o " concerns. "
                 \o (IF Len(list) > 1
                     THEN "We're tackling " \o ToString(Len(list))
                          \o " related environmental issues reported to Boston 311. "
                     ELSE "This event addresses a specific environmental concern reported to Boston 311. ")
                 \o "The " \o primary_issue.department
                 \o " department has been notified, and community action can help accelerate solutions.\n\n"
                 \o (IF cat = "cleanup"
                     THEN "What we'll provide:\n* All cleanup supplies and safety equipment\n* Waste disposal coordination\n* Refreshments for volunteers\n* Community service documentation\n\n"
                     ELSE IF cat = "advocacy"
                     THEN "What we'll do:\n* Discuss the environmental concerns\n* Plan community advocacy strategies\n* Connect with city officials\n* Organize follow-up actions\n\n"
                     ELSE "What you'll learn:\n* Environmental best practices\n* How to report issues effectively\n* Community resources available\n* Prevention strategies\n\n")
                 \o "Together, we can make a real difference in our Boston neighborhoods!"
         IN  Some([title |-> title, description |-> description])

\* FinalBostonScraper._generate_fallback_event
generate_fallback_event(list, cat) ==
    IF list = <<>> THEN Nothing
    ELSE LET primary_issue == list[1]
             neighborhood == IF primary_issue.neighborhood = "" THEN "Community"
                             ELSE primary_issue.neighborhood
             count == ToString(Len(list))
             case_title == Lower(primary_issue.case_title)
         IN  IF cat = "cleanup"
             THEN Some([title |-> neighborhood \o " Environmental Cleanup",
                        description |->
                            "Join us for a community cleanup event in " \o neighborhood
                            \o "! We're addressing " \o count
                            \o " environmental issue(s) including " \o case_title
                            \o ". Help us make our neighborhood cleaner and healthier."])
             ELSE IF cat = "advocacy"
             THEN Some([title |-> neighborhood \o " Environmental Action",
                        description |->
                            "Community meeting to address environmental concerns in "
                            \o neighborhood \o ". We'll discuss " \o count
                            \o " issue(s) including " \o case_title
                            \o " and plan advocacy strategies."])
             ELSE Some([title |-> neighborhood \o " Environmental Workshop",
                        description |->
                            "Educational workshop addressing environmental issues in "
                            \o neighborhood \o ". Learn about " \o case_title
                            \o " and how to prevent future problems."])

\* BostonEventScraper.generate_claude_content, given the answer to its request
generate_claude_content(key, answer, list, cat) ==
    IF ~Truthy(key) THEN generate_fallback_content(list, cat)
    ELSE IF answer.kind = "raise" THEN generate_fallback_content(list, cat)
    ELSE IF answer.status = 200
         THEN (IF answer.text = Nothing THEN generate_fallback_content(list, cat)
               ELSE Some(parse_claude_response(answer.text[1])))
    ELSE generate_fallback_content(list, cat)

\* FinalBostonScraper._call_claude_api, given the answer to its request
call_claude_api(answer) ==
    IF answer.kind = "raise" THEN ""
    ELSE IF answer.status = 200
         THEN (IF answer.text = Nothing \/ answer.text[1].kind # "str" THEN ""
               ELSE Strip(answer.text[1].text))
    ELSE ""

\* the end of generate_event_with_claude; the alternative keeps the description
\* that Claude wrote when the title call gave nothing
title_or_fallback_title(title, description, list, cat) ==
    IF title = ""
    THEN Some([title |-> generate_fallback_event(list, cat)[1].title,
               description |-> description])
    ELSE Some([title |-> title, description |-> description])
title_or_fallback(title, description, list, cat) ==
    IF title = "" THEN generate_fallback_event(list, cat)
    ELSE Some([title |-> title, description |-> description])

\* FinalBostonScraper.generate_event_with_claude, given the answers to its two
\* requests; _generate_description reads issues[0] outside any try
generate_event_with_claude(key, first, second, list, cat) ==
    IF ~Truthy(key) THEN generate_fallback_event(list, cat)
    ELSE IF list = <<>> THEN Nothing
    ELSE IF call_claude_api(first) = "" THEN generate_fallback_event(list, cat)
    ELSE title_or_fallback(call_claude_api(second), call_claude_api(first), list, cat)

ContentInit ==
    /\ scraper \in BostonVariants
    /\ issues \in ListsUpTo(ContentPool, MaxContentIssues)
    /\ content_category =
          IF issues = <<>> THEN "cleanup" ELSE CategorizeWith(scraper, issues[1])
    /\ claude_api_key \in ApiKeys
    /\ api_calls = <<>>
    /\ content = <<>>
    /\ pc = "content"
    /\ now = <<>>
    /\ event_start = <<>>
    /\ event_end = <<>>
    /\ ClusterIdle
    /\ ParseIdle
    /\ RunIdle
    /\ CitiesIdle

ContentUnchanged ==
    UNCHANGED <<scraper, issues, clusters, cluster_locals, parse_vars, run_vars, cities_vars,
                   now,
                event_start, event_end, claude_api_key, content_category>>

\* `content = await self.generate_claude_content(cluster, category)`
GenerateClaudeContent ==
    /\ pc = "content"
    /\ scraper = "boston"
    /\ \E answer \in ApiAnswers(scraper) :
          /\ api_calls' = IF Truthy(claude_api_key) THEN <<answer>> ELSE <<>>
          /\ content' = generate_claude_content(claude_api_key, answer, issues,
                                                content_category)
    /\ pc' = "generated"
    /\ ContentUnchanged

\* `event_data = await self.generate_event_with_claude(cluster, category)`
GenerateEventWithClaude ==
    /\ pc = "content"
    /\ scraper = "final"
    /\ \E first, second \in ApiAnswers(scraper) :
          /\ api_calls' =
                IF ~Truthy(claude_api_key) \/ issues = <<>> THEN <<>>
                ELSE IF call_claude_api(first) = "" THEN <<first>>
                ELSE <<first, second>>
          /\ content' = generate_event_with_claude(claude_api_key, first, second, issues,
                                                   content_category)
    /\ pc' = "generated"
    /\ ContentUnchanged

ContentNext ==
    \/ GenerateClaudeContent
    \/ GenerateEventWithClaude

ContentSpec == ContentInit /\ [][ContentNext]_vars

(***************************************************************************)
(* Whole runs: scrape_boston and process_boston_data as one step, and the  *)
(* loop of scrape_all_cities with one step for each turn, scrape_city      *)
(* included.  The inserts into the tables and the time slept are counted   *)
(* by the run loops above and not here.                                    *)
(***************************************************************************)
\* the names of CITIES in list order
CITIES ==
    [enhanced |-> <<"New York City", "Chicago", "San Francisco", "Los Angeles">>,
     open311 |-> <<"Baltimore", "Bloomington", "Brookline", "Chicago", "Boston">>]

MultiCity == {"enhanced", "open311"}

\* how far the create-event function gets for a cluster: create_marker returned
\* None; the marker was inserted and create_event returned None; both were inserted
Reached == {"none", "marker", "event"}
Oracles == [1..MaxRunIssues -> Reached]

\* the counter counted at the marker
CountedAtMarker(reached) == reached # "none"
\* `self.created_events_count += 1`: under `if created_event:` in the create-event
\* function, in Open311Scraper under `if event:` in scrape_city
Counted(reached) == reached = "event"

\* what the create-event function returns: the event inserted, or None
EventOf(k, reached) == IF reached = "event" THEN Some([cluster |-> k]) ELSE Nothing

\* the loop over the clusters from cluster k on: the events appended and the
\* increments of the counter
RECURSIVE RunLoop(_, _, _)
RunLoop(k, n, o) ==
    IF k > n THEN [events |-> <<>>, count |-> 0]
    ELSE LET rest == RunLoop(k + 1, n, o)
             event == EventOf(k, o[k])
         IN  [events |-> (IF event # Nothing THEN <<event[1]>> ELSE <<>>) \o rest.events,
              count |-> (IF Counted(o[k]) THEN 1 ELSE 0) + rest.count]

\* scrape_boston, process_boston_data and scrape_city on the list fetched:
\* the events returned, the increments of created_events_count, the length that
\* processed_issues_count takes in, and whether the call raised
scrape(s, fallback, fetched, o) ==
    LET list == IF s = "open311" THEN SelectSeq(fetched, is_environmental_issue)
                ELSE fetched
        loop == RunLoop(1, Len(cluster_nearby_issues(s, list, DefaultMaxDistance[s])), o)
    IN  IF list = <<>>
        THEN [events |-> <<>>, count |-> 0, processed |-> 0, raised |-> FALSE]
        ELSE [events |-> loop.events, count |-> loop.count, processed |-> Len(list),
              raised |-> s = "open311" /\ loop.events = <<>> /\ fallback]

\* what a call can come to, over the lists fetched and the results of the inserts;
\* evaluated once
Outcomes ==
    [s \in Scrapers, fallback \in BOOLEAN |->
        {scrape(s, fallback, fetched, o) : fetched \in RunLists(s), o \in Oracles}]

\* `results[name] = value` on a dict kept in insertion order
SetItem(res, name, value) ==
    IF \E k \in 1..Len(res) : res[k].name = name
    THEN [k \in 1..Len(res) |->
             IF res[k].name = name THEN [name |-> name, events |-> value] ELSE res[k]]
    ELSE Append(res, [name |-> name, events |-> value])

\* a try statement around the whole loop: an exception ends the loop
NextTurnOuterTry(index, call_raised, n) == IF call_raised THEN n + 1 ELSE index + 1
\* the try statement is inside the loop body: the loop goes on to the next city
NextTurn(index, call_raised, n) == index + 1

WholeRunInit ==
    /\ scraper \in Scrapers
    /\ use_fallback \in (IF scraper = "open311" THEN BOOLEAN ELSE {FALSE})
    /\ city = None
    /\ issues = <<>>
    /\ pc = "all"
    /\ ClusterIdle
    /\ ParseIdle
    /\ AuxIdle
    /\ RunFresh
    /\ city_index = IF scraper \in MultiCity THEN 1 ELSE 0
    /\ scraped = <<>>

WholeRunUnchanged ==
    UNCHANGED <<scraper, issues, clusters, cluster_locals, parse_vars, aux_vars,
                use_fallback, session, markers, events, marker_calls, event_calls,
                create_calls, slept, gap, sleeps, cluster_index>>

\* scrape_boston and process_boston_data
RunBoston ==
    /\ pc = "all"
    /\ scraper \in BostonVariants
    /\ \E out \in Outcomes[scraper, use_fallback] :
          /\ created_events' = out.events
          /\ created_events_count' = created_events_count + out.count
          /\ processed_issues_count' =
                IF out.processed = 0 THEN processed_issues_count ELSE out.processed
    /\ city' = "Boston"
    /\ pc' = "returned"
    /\ UNCHANGED <<results, raised, city_index, scraped>>
    /\ WholeRunUnchanged

\* one turn of the loop of scrape_all_cities
ScrapeCityTurn ==
    /\ pc = "all"
    /\ scraper \in MultiCity
    /\ city_index <= Len(CITIES[scraper])
    /\ city' = CITIES[scraper][city_index]
    /\ \E out \in Outcomes[scraper, use_fallback] :
          /\ created_events' = out.events
          /\ created_events_count' = created_events_count + out.count
          /\ processed_issues_count' = processed_issues_count + out.processed
          /\ raised' = IF out.raised THEN "AttributeError" ELSE None
          /\ results' = SetItem(results, city', IF out.raised THEN <<>> ELSE out.events)
          /\ scraped' = Append(scraped, [name |-> city', raised |-> out.raised])
          /\ city_index' = NextTurn(city_index, out.raised, Len(CITIES[scraper]))
    /\ pc' = "all"
    /\ WholeRunUnchanged

\* `return results`
ReturnResults ==
    /\ pc = "all"
    /\ scraper \in MultiCity
    /\ city_index > Len(CITIES[scraper])
    /\ pc' = "returned"
    /\ UNCHANGED <<city, created_events, created_events_count, processed_issues_count,
                   raised, results, city_index, scraped>>
    /\ WholeRunUnchanged

WholeRunNext ==
    \/ RunBoston
    \/ ScrapeCityTurn
    \/ ReturnResults

WholeRunSpec == WholeRunInit /\ [][WholeRunNext]_vars

(***************************************************************************)
(* A run step by step: the fetch, the steps of cluster_nearby_issues on    *)
(* the list fetched, and the steps of the run loop over the clusters it    *)
(* returned.                                                               *)
(***************************************************************************)
FullRunInit ==
    /\ scraper \in Scrapers
    /\ city \in Cities(scraper)
    /\ use_fallback \in (IF scraper = "open311" THEN BOOLEAN ELSE {FALSE})
    /\ issues = <<>>
    /\ pc = "run"
    /\ ClusterIdle
    /\ ParseIdle
    /\ AuxIdle
    /\ CitiesIdle
    /\ RunFresh

\* the run up to the call of cluster_nearby_issues: the fetch, the filter of the
\* Open311 scraper, `if not issues: return []` and the count of the issues
FetchIssues ==
    /\ pc = "run"
    /\ \E fetched \in RunLists(scraper) :
          LET list == IF scraper = "open311"
                      THEN SelectSeq(fetched, is_environmental_issue)
                      ELSE fetched
          IN  IF list = <<>>
              THEN /\ pc' = "returned"
                   /\ UNCHANGED <<issues, processed_issues_count>>
              ELSE /\ issues' = list
                   /\ processed_issues_count' =
                         CASE scraper \in BostonVariants -> Len(list)
                           [] scraper = "enhanced" -> processed_issues_count + Len(list)
                           [] scraper = "open311" -> processed_issues_count
                   /\ pc' = "call"
    /\ UNCHANGED <<scraper, clusters, cluster_locals, parse_vars, aux_vars, cities_vars,
                   city, use_fallback, session, created_events_count, created_events,
                   results, raised, markers, events, marker_calls, event_calls,
                   create_calls, slept, gap, sleeps, cluster_index>>

\* `for cluster in clusters:` on the list that cluster_nearby_issues returned
EnterLoop ==
    /\ pc = "done"
    /\ cluster_index' = 1
    /\ pc' = "loop"
    /\ UNCHANGED <<scraper, issues, clusters, cluster_locals, parse_vars, aux_vars,
                   cities_vars, city, use_fallback, session, created_events_count,
                   processed_issues_count, created_events, results, raised, markers,
                   events, marker_calls, event_calls, create_calls, slept, gap, sleeps>>

FullRunNext ==
    \/ FetchIssues
    \/ Enter
    \/ SkipUsed
    \/ StartCluster
    \/ SkipOther
    \/ OtherCategory
    \/ NotNearby
    \/ AppendOther
    \/ EndCluster
    \/ Return
    \/ EnterLoop
    \/ CreateMarker
    \/ CreateEvent
    \/ Sleep
    \/ ReturnEvents
    \/ CreateFallbackEvents

FullRunSpec == FullRunInit /\ [][FullRunNext]_vars

(***************************************************************************)
(* Properties of cluster_nearby_issues.                                    *)
(***************************************************************************)
Returned == pc = "done"

Range(seq) == {seq[k] : k \in 1..Len(seq)}

\* the places <<c, m>> of the output at which input position k stands
PlacesOf(k) ==
    {cm \in UNION {{<<c, m>> : m \in 1..Len(clusters[c])} : c \in 1..Len(clusters)} :
        clusters[cm[1]][cm[2]] = k}

\* the output cluster that holds input position k
ClusterOf(k) == CHOOSE c \in 1..Len(clusters) : k \in Range(clusters[c])

\* the category test between a seed and another record, as each scraper makes it
CategoryTestPasses(seed, other) ==
    CASE scraper \in BostonVariants ->
            Categorize(scraper, issues[seed]) = Categorize(scraper, issues[other])
      [] scraper = "enhanced" -> similar_type(issues[seed], issues[other])
      [] scraper = "open311" -> TRUE

SeedDistance(seed, other) == Distance(scraper, issues[seed], issues[other])

\* C1: when cluster_nearby_issues returns, every input position stands at exactly
\* one place of the output, and the output holds nothing but input positions.
C1_Partition ==
    Returned =>
        /\ \A k \in 1..Len(issues) : Cardinality(PlacesOf(k)) = 1
        /\ \A c \in 1..Len(clusters) : Range(clusters[c]) \subseteq 1..Len(issues)

\* a returned output with a cluster of several records and another cluster
C1_Witness ==
    /\ Returned
    /\ Len(issues) = MaxIssues
    /\ \E c, d \in 1..Len(clusters) : c # d /\ Len(clusters[c]) >= 2

\* C2: every non-seed member of a returned cluster is at most max_distance_km from
\* the cluster's seed, and a record exactly max_distance_km from a seed that passes
\* the scraper's category test is in that seed's cluster or in an earlier one.
C2_DistanceBound ==
    Returned =>
        \A c \in 1..Len(clusters) :
            /\ \A m \in 2..Len(clusters[c]) :
                  SeedDistance(clusters[c][1], clusters[c][m]) <= max_distance_km
            /\ \A k \in 1..Len(issues) :
                  (/\ SeedDistance(clusters[c][1], k) = max_distance_km
                   /\ CategoryTestPasses(clusters[c][1], k))
                  => \E d \in 1..c : k \in Range(clusters[d])

\* a returned cluster with a member exactly max_distance_km from its seed
C2_Witness ==
    /\ Returned
    /\ \E c \in 1..Len(clusters) : \E m \in 2..Len(clusters[c]) :
          SeedDistance(clusters[c][1], clusters[c][m]) = max_distance_km

\* C3: in the Boston scrapers every member of a cluster, finished or under
\* construction, has the category of the cluster's seed.
C3_CategoryHomogeneityBoston ==
    scraper \in BostonVariants =>
        /\ \A c \in 1..Len(clusters) : \A m \in 1..Len(clusters[c]) :
              Categorize(scraper, issues[clusters[c][m]])
                  = Categorize(scraper, issues[clusters[c][1]])
        /\ \A m \in 1..Len(cluster) :
              pc = "inner" =>
                  Categorize(scraper, issues[cluster[m]])
                      = Categorize(scraper, issues[cluster[1]])

\* a Boston output with a cluster of two records whose seed has a record of another
\* category within max_distance_km
C3_Witness ==
    /\ Returned
    /\ scraper \in BostonVariants
    /\ \E c \in 1..Len(clusters) :
          /\ Len(clusters[c]) >= 2
          /\ \E k \in 1..Len(issues) :
                /\ SeedDistance(clusters[c][1], k) <= max_distance_km
                /\ Categorize(scraper, issues[k])
                       # Categorize(scraper, issues[clusters[c][1]])

C5_SeedOnly ==
    LET SeedOnly(members) ==
            \A m \in 2..Len(members) : \A k \in 1..Len(issues) :
                (/\ SeedDistance(members[m], k) <= max_distance_km
                 /\ SeedDistance(members[1], k) > max_distance_km)
                => k \notin Range(members)
    IN  /\ \A c \in 1..Len(clusters) : SeedOnly(clusters[c])
        /\ pc = "inner" => SeedOnly(cluster)

\* a returned cluster with two non-seed members farther apart than max_distance_km,
\* one of them within max_distance_km of a record left out of the cluster
C5_Witness ==
    /\ Returned
    /\ \E c \in 1..Len(clusters) :
          /\ \E m, n \in 2..Len(clusters[c]) :
                SeedDistance(clusters[c][m], clusters[c][n]) > max_distance_km
          /\ \E m \in 2..Len(clusters[c]) : \E k \in 1..Len(issues) :
                /\ k \notin Range(clusters[c])
                /\ CategoryTestPasses(clusters[c][1], k)
                /\ SeedDistance(clusters[c][m], k) <= max_distance_km
                /\ SeedDistance(clusters[c][1], k) > max_distance_km

\* C6: in the returned output the first member of each cluster is the first input
\* position that no earlier cluster holds, so the seeds increase from cluster to
\* cluster, and the members of a cluster stand in strictly increasing input order.
C6_OutputOrder ==
    Returned =>
        /\ \A c \in 1..Len(clusters) :
              /\ Len(clusters[c]) >= 1
              /\ \A k \in 1..Len(issues) :
                    (\A d \in 1..(c - 1) : k \notin Range(clusters[d]))
                    => clusters[c][1] <= k
              /\ \A m \in 2..Len(clusters[c]) : clusters[c][m - 1] < clusters[c][m]
        /\ \A c \in 2..Len(clusters) : clusters[c - 1][1] < clusters[c][1]

\* a returned output whose second cluster has several members, the first cluster
\* holding a later input position than the second cluster's seed
C6_Witness ==
    /\ Returned
    /\ Len(clusters) >= 2
    /\ Len(clusters[2]) >= 2
    /\ \E m \in 2..Len(clusters[1]) : clusters[1][m] > clusters[2][1]

\* C7: in the Boston scrapers a record with no other input record of its category
\* within max_distance_km is returned alone in a cluster of size 1.
C7_SingleRecordClusters ==
    (Returned /\ scraper \in BostonVariants) =>
        \A k \in 1..Len(issues) :
            (\A m \in 1..Len(issues) :
                m # k =>
                    ~(/\ Categorize(scraper, issues[m]) = Categorize(scraper, issues[k])
                      /\ SeedDistance(k, m) <= max_distance_km))
            => \E c \in 1..Len(clusters) : clusters[c] = <<k>>

\* two cleanup records about 5 km apart with the threshold 0.5 km of
\* FinalBostonScraper: two clusters of one record
C7_Witness ==
    /\ Returned
    /\ scraper = "final"
    /\ max_distance_km = DefaultMaxDistance["final"]
    /\ issues = <<Graffiti(P0), Dumping(P1)>>
    /\ Categorize(scraper, issues[1]) = "cleanup"
    /\ Categorize(scraper, issues[2]) = "cleanup"
    /\ clusters = << <<1>>, <<2>> >>

\* C8: a second call of cluster_nearby_issues on the same scraper with the same
\* arguments returns the clusters of the first call, in the same order.
C8_Determinism ==
    (Returned /\ run = 2) => clusters = first_clusters

\* a second call has returned several clusters, one of them with several members
C8_Witness ==
    /\ Returned
    /\ run = 2
    /\ Len(clusters) >= 2
    /\ \E c \in 1..Len(clusters) : Len(clusters[c]) >= 2
    /\ first_clusters = clusters

(***************************************************************************)
(* Properties of the categorizers of the Boston scrapers.                  *)
(***************************************************************************)
Categorized == pc = "categorized"

\* the results of the three checks of one category on the record categorized
ChecksOf(category) ==
    LET issue == issues[1]
    IN  IF scraper = "boston"
        THEN BostonChecks(category, Lower(issue.subject), Lower(issue.reason),
                          Lower(issue.department))
        ELSE FinalChecks(category, Lower(issue.case_title), Lower(issue.subject),
                         Lower(issue.reason))

MatchesAny(category) ==
    ChecksOf(category)[1] \/ ChecksOf(category)[2] \/ ChecksOf(category)[3]

\* C9: the categorizer returns the first category, in the order cleanup, advocacy,
\* education, of which any check succeeds on the record.
C9_CategoryMajorPriority ==
    Categorized =>
        \A k \in 1..Len(CategoryOrder) :
            (/\ MatchesAny(CategoryOrder[k])
             /\ \A m \in 1..(k - 1) : ~MatchesAny(CategoryOrder[m]))
            => issue_category = CategoryOrder[k]

\* a record that matches cleanup by its last check alone and advocacy by its first
\* check has been categorized cleanup
C9_Witness ==
    /\ Categorized
    /\ ChecksOf("cleanup") = <<FALSE, FALSE, TRUE>>
    /\ ChecksOf("advocacy")[1]
    /\ issue_category = "cleanup"

\* C10: the categorizer returns cleanup, advocacy or education, never `other`, and
\* returns cleanup when no check of any category succeeds.
C10_TotalWithCleanupFallback ==
    Categorized =>
        /\ issue_category \in {"cleanup", "advocacy", "education"}
        /\ issue_category # "other"
        /\ (\A k \in 1..Len(CategoryOrder) : ~MatchesAny(CategoryOrder[k]))
           => issue_category = "cleanup"

\* a record with empty text fields, which matches nothing, has been categorized
C10_Witness ==
    /\ Categorized
    /\ issues[1].case_title = ""
    /\ issues[1].subject = ""
    /\ issues[1].reason = ""
    /\ issues[1].department = ""
    /\ \A k \in 1..Len(CategoryOrder) : ~MatchesAny(CategoryOrder[k])
    /\ issue_category = "cleanup"

\* the record of the example: subject "Noise Disturbance", reason "Noise Complaint",
\* the other text fields empty
NoiseExample(issue) ==
    /\ issue.subject = "Noise Disturbance"
    /\ issue.reason = "Noise Complaint"
    /\ issue.case_title = ""
    /\ issue.department = ""

\* C18: both Boston categorizers return advocacy, not cleanup, for the record with
\* subject "Noise Disturbance" and reason "Noise Complaint" and nothing else.
C18_NoiseIsAdvocacy ==
    (Categorized /\ NoiseExample(issues[1])) => issue_category = "advocacy"

\* FinalBostonScraper.categorize_issue has returned for the record of the example
C18_Witness ==
    /\ Categorized
    /\ scraper = "final"
    /\ NoiseExample(issues[1])
    /\ issue_category = "advocacy"

(***************************************************************************)
(* Which seed takes a record.                                              *)
(***************************************************************************)
\* the output places of the seeds that may take input position k: k itself, or a
\* seed of k's category at most max_distance_km from k
EligibleSeeds(k) ==
    {c \in 1..Len(clusters) :
        \/ clusters[c][1] = k
        \/ /\ Categorize(scraper, issues[clusters[c][1]]) = Categorize(scraper, issues[k])
           /\ SeedDistance(clusters[c][1], k) <= max_distance_km}

\* C20: in the output of the Boston scrapers every record is in the cluster of the
\* first seed, in output order, that is the record itself or has its category and
\* lies at most max_distance_km from it; two distinct seeds of one category are
\* farther apart than max_distance_km.
C20_EarliestEligibleSeed ==
    (Returned /\ scraper \in BostonVariants) =>
        /\ \A k \in 1..Len(issues) :
              \E c \in EligibleSeeds(k) :
                  /\ \A d \in EligibleSeeds(k) : c <= d
                  /\ k \in Range(clusters[c])
        /\ \A c, d \in 1..Len(clusters) :
              (/\ c # d
               /\ Categorize(scraper, issues[clusters[c][1]])
                      = Categorize(scraper, issues[clusters[d][1]]))
              => SeedDistance(clusters[c][1], clusters[d][1]) > max_distance_km

\* a Boston output where a record within reach of two seeds of its category went to
\* the earlier one
C20_Witness ==
    /\ Returned
    /\ scraper \in BostonVariants
    /\ \E k \in 1..Len(issues) : \E c, d \in EligibleSeeds(k) :
          /\ c < d
          /\ clusters[c][1] # k
          /\ clusters[d][1] # k
          /\ k \in Range(clusters[c])

\* C16: no step of cluster_nearby_issues, the calls of the categorizer in it
\* included, changes the input list, its records, or the scraper's
\* created_events_count, processed_issues_count and session.
C16_Purity ==
    [][/\ issues' = issues
       /\ scraper' = scraper
       /\ created_events_count' = created_events_count
       /\ processed_issues_count' = processed_issues_count
       /\ session' = session]_vars

\* cluster_nearby_issues returned a cluster of several records, and the scraper's
\* counters and session are as before the call
C16_Witness ==
    /\ Returned
    /\ Len(issues) >= 3
    /\ \E c \in 1..Len(clusters) : Len(clusters[c]) >= 3
    /\ created_events_count = 0
    /\ processed_issues_count = 0
    /\ session = "open"

(***************************************************************************)
(* Properties of the parsers.                                              *)
(***************************************************************************)
Parsed == pc = "parsed"

\* the cells of a row where the scraper looks for the latitude, the longitude
LatitudeCells(row) ==
    CASE scraper = "boston" -> {row.Latitude}
      [] scraper = "final" -> {row.latitude}
      [] scraper = "enhanced" -> {row.latitude, row.lat}
      [] scraper = "open311" -> {row.lat}

LongitudeCells(row) ==
    CASE scraper = "boston" -> {row.Longitude}
      [] scraper = "final" -> {row.longitude}
      [] scraper = "enhanced" -> {row.longitude, row.lng, row.long}
      [] scraper = "open311" -> {row.long}

\* the identifier that a record takes over from its row
RowId(row) ==
    CASE scraper \in BostonVariants -> row.case_enquiry_id
      [] scraper = "enhanced" -> row.unique_key
      [] scraper = "open311" -> row.service_request_id

\* a coordinate of the row is absent, empty or no number
LacksCoordinate(row) ==
    \/ \A cell \in LatitudeCells(row) : Float(cell) = Nothing
    \/ \A cell \in LongitudeCells(row) : Float(cell) = Nothing

\* the rows that the parser is through with
RowsDone == 1..(row_index - 1)

\* C13: in every parser a row whose latitude or longitude is absent, empty or not
\* parseable as a number adds no issue record, and every record parsed has
\* numbers for both coordinates.
C13_MissingCoordinatesFiltered ==
    pc \in {"parse", "parsed"} =>
        /\ \A k \in RowsDone :
              LacksCoordinate(rows[k]) =>
                  \A n \in 1..Len(issues) : RowId(issues[n]) # RowId(rows[k])
        /\ \A n \in 1..Len(issues) :
              /\ Latitude(scraper, issues[n]) \in Int
              /\ Longitude(scraper, issues[n]) \in Int

\* a parser returned after a row without a coordinate and a row that became a record
C13_Witness ==
    /\ Parsed
    /\ Len(rows) = 2
    /\ LacksCoordinate(rows[1])
    /\ ~LacksCoordinate(rows[2])
    /\ Len(issues) = 1
    /\ RowId(issues[1]) = RowId(rows[2])

\* C14 as claimed: every issue record parsed has its latitude in [-90, 90] and
\* its longitude in [-180, 180].
C14_CoordinateRange ==
    \A n \in 1..Len(issues) :
        pc \in {"parse", "parsed"} =>
            /\ Latitude(scraper, issues[n]) \in -90000..90000
            /\ Longitude(scraper, issues[n]) \in -180000..180000

\* the steps of cluster_nearby_issues arrive at the value of the function
StepsGiveValue ==
    Returned => clusters = cluster_nearby_issues(scraper, issues, max_distance_km)

(***************************************************************************)
(* Properties of the run loops.                                            *)
(***************************************************************************)
\* a run loop is past its fetch
Running == pc \in {"loop", "event", "sleep", "returned", "raised", "recorded"}

\* the run is over
RunOver == pc \in {"returned", "raised", "recorded"}

\* no entry of ENVIRONMENTAL_MAPPINGS matches the record
Unmatched(issue) ==
    \A k \in 1..Len(CategoryOrder) :
        LET mapping == EnhancedMappings[CategoryOrder[k]]
        IN  /\ ~Member(issue.complaint_type, mapping.complaint_types)
            /\ ~AnyIn(mapping.keywords,
                      Lower(issue.complaint_type \o " " \o issue.descriptor))

\* C11 as claimed: categorize_issue of the Socrata scraper gives cleanup for a
\* record that matches no category, so that the clusterer takes such a record and
\* a record that matched cleanup as similar.
C11_UnmatchedIsCleanup ==
    (scraper = "enhanced" /\ Running) =>
        \A k \in 1..Len(issues) :
            Unmatched(issues[k]) =>
                /\ Categorize(scraper, issues[k]) = "cleanup"
                /\ \A m \in 1..Len(issues) :
                      Categorize(scraper, issues[m]) = "cleanup"
                          => similar_type(issues[k], issues[m])

\* C11, amended: categorize_issue gives None for a record that matches no category;
\* the event of a cluster whose seed is unmatched gets the category cleanup; in a
\* cluster an unmatched record and a record that matched cleanup stand together
\* only if one of them is the seed and they have the same complaint_type, or both
\* have the complaint_type of the seed.
C11_UnmatchedIsNoneUntilEvent ==
    (scraper = "enhanced" /\ Running) =>
        /\ \A k \in 1..Len(issues) :
              Unmatched(issues[k]) => Categorize(scraper, issues[k]) = None
        /\ \A n \in 1..Len(events) :
              Unmatched(issues[clusters[events[n].cluster][1]])
                  => events[n].category = "cleanup"
        /\ \A c \in 1..Len(clusters) : \A m \in 2..Len(clusters[c]) :
              LET seed == issues[clusters[c][1]]
                  member == issues[clusters[c][m]]
              IN  (Unmatched(seed) # Unmatched(member))
                      => seed.complaint_type = member.complaint_type

\* the Socrata scraper created the event of a cluster whose seed is unmatched, with
\* a record that matched cleanup within max_distance_km of it in another cluster
C11_Witness ==
    /\ scraper = "enhanced"
    /\ \E n \in 1..Len(events) :
          LET c == events[n].cluster
          IN  /\ Unmatched(issues[clusters[c][1]])
              /\ events[n].category = "cleanup"
              /\ \E k \in 1..Len(issues) :
                    /\ k \notin Range(clusters[c])
                    /\ Categorize(scraper, issues[k]) = "cleanup"
                    /\ Distance(scraper, issues[clusters[c][1]], issues[k])
                           <= DefaultMaxDistance[scraper]

\* the number of times that cluster c stands in a list of calls
CallsFor(calls, c) == Cardinality({n \in 1..Len(calls) : calls[n] = c})

\* C12: in a run of any scraper each cluster causes at most one create_marker
\* call and at most one create_event call, and the events returned are no more
\* than the clusters.
C12_AtMostOneEventPerCluster ==
    Running =>
        /\ \A c \in 1..Len(clusters) :
              /\ CallsFor(marker_calls, c) <= 1
              /\ CallsFor(event_calls, c) <= 1
        /\ Range(marker_calls) \cup Range(event_calls) \subseteq 1..Len(clusters)
        /\ Len(created_events) <= Len(clusters)
        /\ \A n \in 1..Len(results) : Len(results[n].events) <= Len(clusters)

\* a run returned as many events as it had clusters, more than one
C12_Witness ==
    /\ pc = "returned"
    /\ Len(clusters) >= 2
    /\ Len(created_events) = Len(clusters)
    /\ \A c \in 1..Len(clusters) :
          CallsFor(marker_calls, c) = 1 /\ CallsFor(event_calls, c) = 1

\* the least and the greatest of a non-empty list of numbers
Least(values) == CHOOSE v \in Range(values) : \A w \in Range(values) : v <= w
Greatest(values) == CHOOSE v \in Range(values) : \A w \in Range(values) : v >= w

\* center is the mean of values, to the thousandth of a degree below
IsMeanOf(center, values) ==
    /\ center * Len(values) <= Sum(values)
    /\ Sum(values) < (center + 1) * Len(values)
    /\ Least(values) <= center
    /\ center <= Greatest(values)

LatitudesOf(c) == [k \in 1..Len(c) |-> Latitude(scraper, issues[c[k]])]
LongitudesOf(c) == [k \in 1..Len(c) |-> Longitude(scraper, issues[c[k]])]

SleepAfterEveryCluster ==
    /\ pc = "loop" => sleeps = cluster_index - 1
    /\ pc \in {"event", "sleep"} => sleeps = cluster_index - 1
    /\ RunOver => sleeps = Len(clusters)

\* C17 as claimed: in every run loop two consecutive calls of the create-event
\* function are separated by a sleep of at least one second, and every cluster
\* is followed by a sleep.
C17_OneSecondBetweenCalls ==
    Running =>
        /\ gap # Nothing => gap[1] >= 1000
        /\ SleepAfterEveryCluster

\* C17, amended: two consecutive calls of the create-event function are separated
\* by a sleep of at least one second in scrape_boston, process_boston_data and
\* Open311Scraper.scrape_city and of at least half a second in
\* EnhancedEventScraper.scrape_city; every cluster is followed by a sleep whether
\* or not its event was created.
C17_DelayBetweenCalls ==
    Running =>
        /\ gap # Nothing => gap[1] >= (IF scraper = "enhanced" THEN 500 ELSE 1000)
        /\ SleepAfterEveryCluster

\* the Socrata scraper calls its create-event function a second time, half a
\* second after the call for a cluster whose marker was not created
C17_Witness ==
    /\ scraper = "enhanced"
    /\ Len(create_calls) = 2
    /\ markers = <<>>
    /\ sleeps = 1
    /\ gap = Some(500)

\* C19 as claimed: when scrape_city of the Open311 scraper has created no event
\* from API data and use_fallback is true, scrape_all_cities records a non-empty
\* list of fallback events under the city's name.
C19_FallbackEventsRecorded ==
    (scraper = "open311" /\ use_fallback /\ pc = "recorded" /\ events = <<>>) =>
        /\ results[Len(results)].name = city
        /\ results[Len(results)].events # <<>>

(***************************************************************************)
(* The loops of cluster_nearby_issues.                                     *)
(***************************************************************************)
\* cluster_nearby_issues is inside its loops, or has just returned from them
InLoops == pc \in {"outer", "inner"}
AfterLoops == pc = "done" /\ Len(issues) > 0

\* the clusters that hold records: the completed ones, and during the inner loop
\* the one under construction
Built == IF pc = "inner" THEN Append(clusters, cluster) ELSE clusters

\* what holds of used_indices in every state of the loops
UsedIndicesInvariant ==
    (InLoops \/ AfterLoops) =>
        /\ used_indices = UNION {Range(Built[c]) : c \in 1..Len(Built)}
        /\ used_indices \subseteq 1..Len(issues)
        /\ \A c, d \in 1..Len(Built) : c # d => Range(Built[c]) \cap Range(Built[d]) = {}
        /\ \A c \in 1..Len(Built) : Cardinality(Range(Built[c])) = Len(Built[c])
        /\ pc = "outer" => 1..(i - 1) \subseteq used_indices
        /\ pc = "inner" => 1..i \subseteq used_indices

\* what a step inside the loops keeps: the indices in used_indices, the completed
\* clusters, and the members so far of the cluster under construction, which is
\* appended as it stands
UsedIndicesStep ==
    (InLoops /\ pc' \in {"outer", "inner", "done"}) =>
        /\ used_indices \subseteq used_indices'
        /\ Len(clusters') >= Len(clusters)
        /\ \A c \in 1..Len(clusters) : clusters'[c] = clusters[c]
        /\ (pc = "inner" /\ pc' = "inner") =>
              /\ Len(cluster') >= Len(cluster)
              /\ SubSeq(cluster', 1, Len(cluster)) = cluster
              /\ clusters' = clusters
        /\ (pc = "inner" /\ pc' = "outer") => clusters' = Append(clusters, cluster)

\* C21: in every state of the loops of cluster_nearby_issues used_indices is exactly
\* the set of indices in the completed clusters and the cluster under construction,
\* these are pairwise disjoint, every index below the outer index is in
\* used_indices, and no step removes an index from used_indices or from its cluster.
C21_UsedIndicesLoopInvariant ==
    []UsedIndicesInvariant /\ [][UsedIndicesStep]_vars

\* the inner loop is at work on a second cluster of several records, after a first
\* cluster of several records
C21_Witness ==
    /\ pc = "inner"
    /\ Len(clusters) >= 1
    /\ Len(clusters[1]) >= 2
    /\ Len(cluster) >= 2
    /\ cluster[1] = i
    /\ used_indices = Range(clusters[1]) \cup Range(cluster)

\* C22: every cluster that cluster_nearby_issues returns holds at least one record;
\* the list returned is empty exactly when the input list is; for an input of n >= 1
\* records it holds between 1 and n clusters.
C22_NonEmptyClusters ==
    Returned =>
        /\ \A c \in 1..Len(clusters) : Len(clusters[c]) >= 1
        /\ clusters = <<>> <=> issues = <<>>
        /\ Len(issues) >= 1 => Len(clusters) \in 1..Len(issues)

\* an input of several records came back as one cluster for each record
C22_Witness ==
    /\ Returned
    /\ Len(issues) >= 3
    /\ Len(clusters) = Len(issues)
    /\ \A c \in 1..Len(clusters) : Len(clusters[c]) = 1

(***************************************************************************)
(* The marker and the event of a cluster.                                  *)
(***************************************************************************)
\* the markers inserted for cluster c
MarkersOf(c) == {m \in 1..Len(markers) : markers[m].cluster = c}

\* the marker of every event, and of every create_event call, is there
MarkerBeforeEvent ==
    Running =>
        /\ \A n \in 1..Len(events) :
              /\ events[n].marker_id \in MarkersOf(events[n].cluster)
        /\ \A n \in 1..Len(event_calls) :
              /\ event_calls[n] \in Range(marker_calls)
              /\ MarkersOf(event_calls[n]) # {}
        /\ pc = "event" => MarkersOf(cluster_index) = {Len(markers)}
        /\ Len(markers) >= Len(events)

\* no step takes a marker back
MarkersKept ==
    /\ Len(markers') >= Len(markers)
    /\ SubSeq(markers', 1, Len(markers)) = markers

\* C23: in every run loop create_event is called for a cluster only after
\* create_marker returned a marker for that cluster, the event's marker_id is that
\* marker's id, a cluster whose marker failed has no create_event call, the markers
\* inserted are never fewer than the events inserted, and no marker is taken back.
C23_MarkerBeforeEvent ==
    []MarkerBeforeEvent /\ [][MarkersKept]_vars

\* a run returned with the marker of a first cluster whose event failed still in
\* place, and the event of a second cluster on the second marker
C23_Witness ==
    /\ pc = "returned"
    /\ marker_calls = <<1, 2>>
    /\ event_calls = <<1, 2>>
    /\ Len(markers) = 2
    /\ Len(events) = 1
    /\ events[1].cluster = 2
    /\ events[1].marker_id = 2

(***************************************************************************)
(* Properties of the schedule.                                             *)
(***************************************************************************)
Scheduled == pc = "scheduled"

\* the seconds from datetime a to datetime b
SecondsBetween(a, b) == (b.day - a.day) * 86400 + (b.second - a.second)

\* C24: whatever the weekday and time of day of the call, days_until_saturday is in
\* 1..7, the event starts on a Saturday after the current day, 7 days ahead when
\* today is a Saturday, at 10:00:00, and ends exactly 3 hours after it starts.
C24_NextSaturday ==
    Scheduled =>
        /\ days_until_saturday(now) \in 1..7
        /\ event_start.day = now.day + days_until_saturday(now)
        /\ weekday(event_start) = 5
        /\ event_start.day > now.day
        /\ weekday(now) = 5 => event_start.day = now.day + 7
        /\ \A d \in (now.day + 1)..(event_start.day - 1) : (d + 6) % 7 # 5
        /\ event_start.second = 10 * 3600
        /\ event_start.microsecond = 0
        /\ SecondsBetween(event_start, event_end) = 3 * 3600
        /\ event_end.microsecond = event_start.microsecond

\* an event scheduled on a Saturday evening for the Saturday a week later
C24_Witness ==
    /\ Scheduled
    /\ weekday(now) = 5
    /\ now.second > 13 * 3600
    /\ event_start.day = now.day + 7
    /\ event_end.day = event_start.day
    /\ event_end.second = 13 * 3600

(***************************************************************************)
(* Properties of the content generators.                                   *)
(***************************************************************************)
Generated == pc = "generated"

\* the locally generated content of each scraper
FallbackOf(s, list, cat) ==
    IF s = "boston" THEN generate_fallback_content(list, cat)
    ELSE generate_fallback_event(list, cat)

\* the answer is a failure of the call: the request or the reading of the response
\* raised, or the status is not 200; for the final scraper also an empty text
CallFailed(s, answer) ==
    IF s = "boston"
    THEN answer.kind = "raise" \/ answer.status # 200 \/ answer.text = Nothing
    ELSE call_claude_api(answer) = ""

\* C25: for a non-empty cluster the content generators of the two Boston scrapers
\* do not raise and return a non-empty title and a non-empty description; without
\* an API key, or when a call fails (in the final scraper also when the
\* description call or the title call gives an empty text), the result is the
\* fallback content as a whole; the final scraper returns either the fallback
\* content or the description and the title that Claude wrote.
C25_ClaudeFallback ==
    (Generated /\ Len(issues) >= 1) =>
        /\ content # Nothing
        /\ content[1].title # ""
        /\ content[1].description # ""
        /\ (\/ ~Truthy(claude_api_key)
            \/ \E n \in 1..Len(api_calls) : CallFailed(scraper, api_calls[n]))
           => content = FallbackOf(scraper, issues, content_category)
        /\ scraper = "final" =>
              \/ content = FallbackOf(scraper, issues, content_category)
              \/ /\ Len(api_calls) = 2
                 /\ content[1].description = call_claude_api(api_calls[1])
                 /\ content[1].title = call_claude_api(api_calls[2])

\* the final scraper got a description from Claude and then no title, and returned
\* the fallback content
C25_Witness ==
    /\ Generated
    /\ scraper = "final"
    /\ Len(issues) >= 2
    /\ Len(api_calls) = 2
    /\ call_claude_api(api_calls[1]) # ""
    /\ call_claude_api(api_calls[2]) = ""
    /\ content = generate_fallback_event(issues, content_category)
    /\ content[1].description # call_claude_api(api_calls[1])

(***************************************************************************)
(* The filter of a Boston parser and the categorizer of its scraper.       *)
(***************************************************************************)
\* the text fields of the BostonIssue that the parser builds from a row
RecordOf(row) ==
    IF scraper = "boston"
    THEN BostonIssue(row.case_title, row.Subject, row.Reason, row.Department, P0)
    ELSE BostonIssue(row.case_title, row.subject, row.reason, row.department, P0)

\* _is_environmental_issue of the scraper
PassesFilter(row) ==
    IF scraper = "boston" THEN boston_is_environmental_issue(row)
    ELSE final_is_environmental_issue(row)

\* the categories of which the categorizer's checks succeed on the record
MatchedCategories(issue) ==
    {k \in 1..Len(CategoryOrder) :
        LET checks ==
                IF scraper = "boston"
                THEN BostonChecks(CategoryOrder[k], Lower(issue.subject),
                                  Lower(issue.reason), Lower(issue.department))
                ELSE FinalChecks(CategoryOrder[k], Lower(issue.case_title),
                                 Lower(issue.subject), Lower(issue.reason))
        IN  checks[1] \/ checks[2] \/ checks[3]}

\* the categorizer returns from inside its loop, at the first category matched
ReturnsByMatch(issue) ==
    /\ MatchedCategories(issue) # {}
    /\ CategorizeWith(scraper, issue) =
           CategoryOrder[CHOOSE k \in MatchedCategories(issue) :
                            \A m \in MatchedCategories(issue) : k <= m]

\* the categorizer falls through its loop to the default
ReturnsByDefault(issue) ==
    /\ MatchedCategories(issue) = {}
    /\ CategorizeWith(scraper, issue) = "cleanup"

\* C26: in the Boston scrapers the filter accepts a row exactly when the categorizer
\* returns by a table match on the record built from the row, and rejects it
\* exactly when the categorizer falls to its default; every record parsed is
\* categorized by a table match.
C26_FilterAgreesWithCategorizer ==
    (scraper \in BostonVariants /\ pc \in {"parse", "parsed"}) =>
        /\ \A k \in RowsDone :
              /\ PassesFilter(rows[k]) <=> ReturnsByMatch(RecordOf(rows[k]))
              /\ ~PassesFilter(rows[k]) <=> ReturnsByDefault(RecordOf(rows[k]))
        /\ \A n \in 1..Len(issues) : ReturnsByMatch(issues[n])

\* a parser returned after a row that matches a table by another field than its
\* subject, which became a record, and a row that matches nothing, which did not
C26_Witness ==
    /\ Parsed
    /\ scraper \in BostonVariants
    /\ Len(rows) = 2
    /\ Len(issues) = 1
    /\ RowId(issues[1]) = RowId(rows[1])
    /\ RecordOf(rows[1]).subject = "Pothole"
    /\ ReturnsByMatch(issues[1])
    /\ CategorizeWith(scraper, issues[1]) # "cleanup"
    /\ ~PassesFilter(rows[2])
    /\ ReturnsByDefault(RecordOf(rows[2]))

(***************************************************************************)
(* Properties of whole runs.                                               *)
(***************************************************************************)
AllReturned == pc = "returned" /\ city_index > 0

\* the city names of the first n entries of CITIES
FirstCities(n) == [k \in 1..n |-> CITIES[scraper][k]]

\* C27: scrape_all_cities of the Enhanced and Open311 scrapers calls scrape_city on
\* the cities in the order of CITIES; after each turn the mapping has one entry for
\* each city scraped so far, empty when the call raised; the loop goes on after a
\* call that raised, and the mapping returned has exactly one entry for each city.
C27_PerCityIsolation ==
    (scraper \in MultiCity /\ pc \in {"all", "returned"}) =>
        /\ Len(scraped) = city_index - 1
        /\ [k \in 1..Len(scraped) |-> scraped[k].name] = FirstCities(Len(scraped))
        /\ [k \in 1..Len(results) |-> results[k].name] = FirstCities(Len(scraped))
        /\ \A k \in 1..Len(scraped) : scraped[k].raised => results[k].events = <<>>
        /\ AllReturned => Len(results) = Len(CITIES[scraper])

\* the Open311 scraper returned after scrape_city raised for the second city and
\* created events for the third and for the last
C27_Witness ==
    /\ AllReturned
    /\ scraper = "open311"
    /\ Len(results) = 5
    /\ results[1].events # <<>>
    /\ scraped[2].raised
    /\ results[2] = [name |-> "Bloomington", events |-> <<>>]
    /\ results[3].name = "Brookline"
    /\ results[3].events # <<>>
    /\ results[5].events # <<>>

\* the number of events in what the run returns, or has put into results so far
TotalEvents ==
    IF scraper \in MultiCity
    THEN Sum([k \in 1..Len(results) |-> Len(results[k].events)])
    ELSE Len(created_events)

RunEnded == pc \in {"returned", "raised"}

\* bounds on the number of steps left: in the run loop with m clusters at
\* cluster k, and in cluster_nearby_issues on n records at seed i
LoopStepsLeft(m, k) == 3 * (m - k + 1) + 1
OuterStepsLeft(n, seed) == (n - seed + 1) * (n + 2) + 1 + (3 * n + 2)

StepsLeft ==
    LET n == Len(issues)
        m == Len(clusters)
    IN  CASE pc = "run" -> 2 + OuterStepsLeft(MaxRunIssues, 1)
          [] pc = "call" -> 1 + OuterStepsLeft(n, 1)
          [] pc = "outer" -> OuterStepsLeft(n, i)
          [] pc = "inner" -> (n - j + 1) + 1 + OuterStepsLeft(n, i + 1)
          [] pc = "done" -> 1 + LoopStepsLeft(m, 1)
          [] pc = "loop" -> LoopStepsLeft(m, cluster_index)
          [] pc = "event" -> LoopStepsLeft(m, cluster_index) - 1
          [] pc = "sleep" -> LoopStepsLeft(m, cluster_index) - 2
          [] RunEnded -> 0

\* where the loops stand: the outer loop has made i - 1 iterations of at most n, the
\* inner loop j - 1 steps of at most n, and the run loop has called the create-event
\* function once for each cluster before the current one, in order
LoopsInRange ==
    LET n == Len(issues)
    IN  /\ pc = "outer" => i \in 1..(n + 1)
        /\ pc = "inner" => i \in 1..n /\ j \in 1..(n + 1)
        /\ pc = "done" => i = n + 1 /\ Len(clusters) <= n
        /\ pc = "loop" =>
              /\ cluster_index \in 1..(Len(clusters) + 1)
              /\ create_calls = [k \in 1..(cluster_index - 1) |-> k]
        /\ pc \in {"event", "sleep"} =>
              /\ cluster_index \in 1..Len(clusters)
              /\ create_calls = [k \in 1..cluster_index |-> k]
        /\ (pc = "returned" /\ clusters # <<>>) =>
              create_calls = [k \in 1..Len(clusters) |-> k]

\* a step of a loop moves it on by one, and the step that starts an inner loop
\* starts it at the first record
LoopsAdvance ==
    /\ (pc = "outer" /\ pc' = "outer") => i' = i + 1
    /\ (pc = "outer" /\ pc' = "inner") => i' = i /\ j' = 1
    /\ (pc = "inner" /\ pc' = "inner") => i' = i /\ j' = j + 1
    /\ (pc = "inner" /\ pc' = "outer") => i' = i + 1 /\ j = Len(issues) + 1
    /\ (pc = "sleep" /\ pc' = "loop") => cluster_index' = cluster_index + 1
    /\ (pc \in {"loop", "event"} /\ pc' \in {"event", "sleep"}) =>
          cluster_index' = cluster_index

\* C29: a run never stops before its end and every step of it lowers a bound on
\* the steps left, so it finishes; cluster_nearby_issues on n records makes n
\* iterations of its outer loop and n steps of the inner loop for each seed, and
\* the run loop takes each cluster once, in order.
C29_Termination ==
    /\ [](StepsLeft >= 0 /\ LoopsInRange /\ (~RunEnded => ENABLED FullRunNext))
    /\ [][StepsLeft' < StepsLeft /\ LoopsAdvance]_vars

\* a run is at its end whose outer loop skipped the second record, which the inner
\* loop of the first seed had taken, and whose run loop took the one cluster
C29_Witness ==
    /\ pc = "returned"
    /\ Len(issues) = 2
    /\ i = 3
    /\ j = 3
    /\ clusters = <<(<<1, 2>>)>>
    /\ create_calls = <<1>>
    /\ sleeps = 1

(***************************************************************************)
(* Zero coordinates in _parse_boston_csv and _parse_socrata_data.          *)
(***************************************************************************)
ZeroDropping == {"boston", "enhanced"}

\* what the parser's _safe_float gives for the latitude, the longitude of a row
ParsedLatitude(row) ==
    IF scraper = "boston" THEN boston_safe_float(row.Latitude)
    ELSE enhanced_safe_float(Or(row.latitude, row.lat))

ParsedLongitude(row) ==
    IF scraper = "boston" THEN boston_safe_float(row.Longitude)
    ELSE enhanced_safe_float(Or(Or(row.longitude, row.lng), row.long))

ParsesToZero(row) == ParsedLatitude(row) = Some(0) \/ ParsedLongitude(row) = Some(0)

\* C30: every record that _parse_boston_csv and _parse_socrata_data emit has a
\* latitude and a longitude other than 0, and a row whose latitude or longitude
\* parses to 0 adds no record, as a row without coordinates adds none.
C30_ZeroCoordinatesDropped ==
    (scraper \in ZeroDropping /\ pc \in {"parse", "parsed"}) =>
        /\ \A n \in 1..Len(issues) :
              /\ Latitude(scraper, issues[n]) # 0
              /\ Longitude(scraper, issues[n]) # 0
        /\ \A k \in RowsDone :
              ParsesToZero(rows[k]) =>
                  \A n \in 1..Len(issues) : RowId(issues[n]) # RowId(rows[k])

\* a parser returned after a row whose coordinates are numbers, one of them 0, and a
\* row that became a record
C30_Witness ==
    /\ Parsed
    /\ scraper \in ZeroDropping
    /\ Len(rows) = 2
    /\ ParsesToZero(rows[1])
    /\ ~LacksCoordinate(rows[1])
    /\ ~ParsesToZero(rows[2])
    /\ issues # <<>>
    /\ \A n \in 1..Len(issues) : RowId(issues[n]) = RowId(rows[2])

====
